---- MODULE Spec2Model ----
(***************************************************************************)
(* A model of the aOa prediction engine (services/index/indexer.py and     *)
(* src/ranking/scorer.py): the rolling Hit@5 evaluator over the key-value  *)
(* store, the Thompson-sampling weight tuner and the file scorer.          *)
(*                                                                         *)
(* Time is the wall clock in milliseconds (time.time() * 1000).  A key of  *)
(* the store that was given a TTL exists while now < its expiry.           *)
(***************************************************************************)
EXTENDS Integers, Sequences, FiniteSets, TLC

VARIABLES
    now,            \* wall clock, in ms
    nOps,           \* how many operations have run (bounds the model)
    prediction,     \* aoa:prediction:{session}:{timestamp_ms} -> JSON value, with expiry
    predictions,    \* aoa:predictions:{session} -> list of prediction keys, with expiry
    rolling,        \* aoa:rolling:predictions, a sorted set: prediction key -> score
    rollingData,    \* aoa:rolling:data:{prediction key} -> hash, with expiry
    metrics,        \* aoa:metrics:hits, aoa:metrics:misses
    projMetrics,    \* aoa:{project_id}:metrics:hits, aoa:{project_id}:metrics:misses
    logCalls,       \* history: the timestamp of every /predict/log call that stored a batch
    unscoped,       \* history: the outcomes counted by /predict/check calls without project_id
    lastOp,         \* history: the operation that ran last
    lastReq,        \* history: the request of the last /predict/check, run as one step
    chk,            \* the /predict/check request in flight: its position and locals
    fin,            \* the /predict/finalize request in flight: its position and locals
    firstSeen,      \* history: per batch, the request that first read its flag as ''
    armStats,       \* aoa:tuner:arm:{idx} -> hash of the observed hits (alpha) and misses (beta)
    currentArm,     \* WeightTuner._current_arm
    req,            \* the prediction requests that use the tuner: position and drawn arm
    credited,       \* history: per request, the arm its feedback was counted for
    outcomes,       \* history: per prediction batch, the outcomes counted in the arm statistics
    feedbacks,      \* history: per arm, the hits and misses reported for it since the last reset
    recency,        \* aoa:recency: file -> time of its last access (seconds)
    frequency,      \* aoa:frequency: file -> number of accesses
    tagAffinity,    \* aoa:tag:{tag}: file -> number of accesses bearing the tag
    first_seen,     \* aoa:first_seen:{file}: time of the first access (seconds)
    recordedUnder,  \* history: per file, the projects of the callers that recorded it
    response,       \* the last response of /predict or /rank and the project of its caller
    timeline,       \* IntentIndex.timeline: project key -> list of intent records
    session_intents,\* IntentIndex.session_intents: project key -> session -> list of records
    tag_to_files,   \* IntentIndex.tag_to_files: project key -> tag -> set of files
    file_to_tags,   \* IntentIndex.file_to_tags: project key -> files in insertion order, each with its tags
    disk,           \* the files under the index root: whether each exists, its content and mtime
    watching,       \* whether the index was scanned and its watcher started
    events,         \* the filesystem events the watcher thread has still to deliver
    inverted_index, \* CodebaseIndex.inverted_index: token -> list of locations
    files,          \* CodebaseIndex.files: relative path -> FileMeta
    changes,        \* CodebaseIndex.changes: list of change records
    last_indexed,   \* CodebaseIndex.last_indexed
    tag_count,      \* Redis tag_count:<project>:<file>:<symbol>:<tag> counters
    tag_meta,       \* Redis tag_meta:<project>:<file>:<symbol>:<tag> hashes
    enriched,       \* Redis enriched:<project>:<file> hashes
    session_files,  \* the agent-*.jsonl session logs: file name -> list of tool events
    transition,     \* Redis aoa:transition:<from_file> sorted sets: from -> to -> count
    sequences,      \* Redis sequences:<project>:<session> lists, newest access first
    transition_counts, \* Redis transition_counts:<project>:<from> hashes: from -> to -> count
    transition_timing, \* Redis transition_timing:<project>:<from>:<to> lists of time deltas
    transitions,    \* Redis transitions:<project>:<from> sorted sets: from -> to -> probability
    manager,        \* IndexManager: whether the legacy local index exists, and the registered projects in order
    whitelist_file, \* the proxy's .allowed_urls file: absent, or the list of allowed hosts
    context_cache,  \* Redis aoa:context:<keywords> strings: key -> cached result and its expiry
    rlock,          \* CodebaseIndex.lock, a threading.RLock: its owner and how often the owner holds it
    threads,        \* the threads that call CodebaseIndex.search: the position of each
    workers         \* the threads inside SequenceTracker.record_access: position and locals of each

evalVars == <<prediction, predictions, rolling, rollingData, metrics, projMetrics,
              logCalls, unscoped>>
raceVars == <<chk, fin, firstSeen>>
tunerVars == <<armStats, currentArm, req, credited, outcomes, feedbacks>>
scoreVars == <<recency, frequency, tagAffinity, first_seen, recordedUnder, response>>
intentVars == <<timeline, session_intents, tag_to_files, file_to_tags>>
\* the variables of the components that the evaluator, the tuner and the scorer never touch
indexVars == <<disk, watching, events, inverted_index, files, changes, last_indexed,
               tag_count, tag_meta, enriched>>
batchVars == <<session_files, transition>>
trackerVars == <<sequences, transition_counts, transition_timing, transitions>>
serviceVars == <<manager, whitelist_file, context_cache, rlock, threads, workers>>
extraVars == <<intentVars, indexVars, batchVars, trackerVars, serviceVars>>

(***************************************************************************)
(* Program constants.                                                      *)
(***************************************************************************)
ROLLING_WINDOW_HOURS == 24
ROLLING_WINDOW_SECONDS == ROLLING_WINDOW_HOURS * 3600
PREDICTION_TTL == 60
SESSION_LIST_TTL == 3600
ROLLING_DATA_EXTRA_TTL == 3600
TOP_K == 5
LRANGE_STOP == 10
DEFAULT_MAX_AGE == 300

(***************************************************************************)
(* Bounds of the model.                                                    *)
(***************************************************************************)
MaxOps == 3
MaxRaceOps == 4
MaxTunerOps == 4
MaxScoreOps == 4
MaxIntentOps == 3
MaxIndexOps == 5
MaxBatchOps == 5
MaxTrackerOps == 5
MaxSampleOps == 8
MaxAccessOps == 3
MaxPredictOps == 4
MaxArmOps == 3
SyntheticFeedbacks == 1000
MaxHitOps == 7
MaxFinalOps == 4
MaxManagerOps == 4
MaxContextOps == 4
MaxProxyOps == 4
MaxLockOps == 9
MaxLiveOps == 13

Sessions == {"s1", "s2"}
NoProject == ""
Projects == {"p1", "p2"}
ProjectIds == Projects \cup {NoProject}
LongList == <<"f1", "f2", "f3", "f4", "f5", "f6">>
ShortList == <<"f2">>
PredictionLists == {<< >>, LongList, ShortList}
ReadFiles == {"f2", "f6", "f7"}
MaxAges == {0, DEFAULT_MAX_AGE}
TickSteps == {1, PREDICTION_TTL * 1000, SESSION_LIST_TTL * 1000,
              ROLLING_WINDOW_SECONDS * 1000}

(***************************************************************************)
(* Helpers over the key-value store.                                       *)
(***************************************************************************)
Ms(seconds) == seconds * 1000

Range(seq) == {seq[i] : i \in 1..Len(seq)}

Take(seq, n) == SubSeq(seq, 1, IF Len(seq) < n THEN Len(seq) ELSE n)

Put(f, k, v) == [x \in (DOMAIN f) \cup {k} |-> IF x = k THEN v ELSE f[x]]

EmptyMap == [x \in {} |-> 0]

\* A key with a TTL exists until its expiry time is reached.
NoExpiry == -1
Alive(exp) == exp = NoExpiry \/ now < exp

\* prediction_key = f"aoa:prediction:{session_id}:{timestamp_ms}"
PredictionKey(s, ts) == <<s, ts>>

\* hget(rolling_data_key, 'hit'): None when the hash is gone
HGetHit(data, k) ==
    IF k \in DOMAIN data /\ Alive(data[k].exp) THEN data[k].hit ELSE "None"

\* hset(rolling_data_key, 'hit', v): a hash that exists keeps its other fields
\* and its TTL; a hash that has expired is created anew, without a TTL
HSetHit(data, k, v) ==
    IF k \in DOMAIN data /\ Alive(data[k].exp)
    THEN [data EXCEPT ![k].hit = v]
    ELSE Put(data, k, [predicted_files |-> << >>, hit |-> v, exp |-> NoExpiry])

\* zrangebyscore(rolling_key, lo, hi): both ends inclusive
ZRangeByScore(z, lo, hi) == {k \in DOMAIN z : lo <= z[k] /\ z[k] <= hi}

\* zremrangebyscore(rolling_key, 0, cutoff)
ZRemRangeByScore(z, lo, hi) ==
    [k \in (DOMAIN z) \ ZRangeByScore(z, lo, hi) |-> z[k]]

\* lrange(session_predictions_key, 0, 10): the stop index is inclusive
LRange(s) ==
    IF Alive(predictions[s].exp)
    THEN Take(predictions[s].list, LRANGE_STOP + 1)
    ELSE << >>

\* scorer.redis.client.get(pred_key) followed by json.loads
GetPrediction(k) ==
    IF k \in DOMAIN prediction /\ Alive(prediction[k].exp)
    THEN prediction[k].predicted_files
    ELSE << >>

\* a variant that compares the read with the first predicted file only
Matches_FirstOnly(k, f) ==
    GetPrediction(k) # << >> /\ f = Head(GetPrediction(k))

\* if pred_data: ... if file_path in prediction.get('predicted_files', [])
Matches(k, f) == f \in Range(GetPrediction(k))

\* the first key of the loop `for pred_key in prediction_keys` that matches; 0 if none
FirstMatch(keys, f) ==
    LET idx == {i \in 1..Len(keys) : Matches(keys[i], f)}
    IN  IF idx = {} THEN 0 ELSE CHOOSE i \in idx : \A j \in idx : i <= j

\* the rolling-data update of a hit: only a batch that is still '' is marked '1'
MarkHit(data, k) ==
    IF HGetHit(data, k) = "" THEN HSetHit(data, k, "1") ELSE data

\* a variant that marks every stale batch, evaluated or not
MarkMisses_All(data, stale) ==
    [k \in DOMAIN data |->
        IF k \in stale THEN [data[k] EXCEPT !.hit = "0"] ELSE data[k]]

\* the rolling-data update of finalize over the stale keys
MarkMisses(data, stale) ==
    [k \in DOMAIN data |->
        IF k \in stale /\ HGetHit(data, k) = ""
        THEN [data[k] EXCEPT !.hit = "0"]
        ELSE data[k]]

\* a variant that drops the increment of the hit counter
IncrHits_Dropped(m) == m

\* incr('aoa:metrics:hits') / incr('aoa:metrics:misses')
IncrHits(m) == [m EXCEPT !.hits = @ + 1]
IncrMisses(m) == [m EXCEPT !.misses = @ + 1]

\* if project_id: incr(f'aoa:{project_id}:metrics:hits')
IncrProjectHits(pm, p) ==
    IF p # NoProject THEN [pm EXCEPT ![p] = IncrHits(@)] ELSE pm

\* a variant that writes a miss of a project to its hit counter
IncrProjectMisses_WrongKey(pm, p) ==
    IF p # NoProject THEN [pm EXCEPT ![p] = IncrHits(@)] ELSE pm

\* if project_id: incr(f'aoa:{project_id}:metrics:misses')
IncrProjectMisses(pm, p) ==
    IF p # NoProject THEN [pm EXCEPT ![p] = IncrMisses(@)] ELSE pm

(***************************************************************************)
(* calculate_rolling_hit_rate                                              *)
(***************************************************************************)
WindowKeys == ZRangeByScore(rolling, now - Ms(ROLLING_WINDOW_HOURS * 3600), now)

RollingTotal == Cardinality(WindowKeys)
RollingHits == Cardinality({k \in WindowKeys : HGetHit(rollingData, k) = "1"})
RollingMisses == Cardinality({k \in WindowKeys : HGetHit(rollingData, k) = "0"})
RollingEvaluated == RollingHits + RollingMisses
RollingPending == RollingTotal - RollingEvaluated

(***************************************************************************)
(* The initial state: an empty store.                                      *)
(***************************************************************************)
StartTime == 2 * Ms(ROLLING_WINDOW_SECONDS)

NoRequest == [s |-> "", f |-> "", p |-> NoProject]

InitClock == now = StartTime /\ nOps = 0 /\ lastOp = "init" /\ lastReq = NoRequest

InitEval ==
    /\ prediction = EmptyMap
    /\ predictions = [s \in Sessions |-> [list |-> << >>, exp |-> 0]]
    /\ rolling = EmptyMap
    /\ rollingData = EmptyMap
    /\ metrics = [hits |-> 0, misses |-> 0]
    /\ projMetrics = [p \in Projects |-> [hits |-> 0, misses |-> 0]]
    /\ logCalls = << >>
    /\ unscoped = [hits |-> 0, misses |-> 0]

\* The store after session s1 has logged LRANGE_STOP + 1 batches, one per
\* millisecond up to the millisecond before StartTime: the first predicted
\* OldestList, the others FillerList, and none has been evaluated.
BacklogLen == LRANGE_STOP + 1
BacklogSession == "s1"
OldestList == <<"f6">>
FillerList == <<"f7">>
BacklogTime(i) == StartTime - BacklogLen - 1 + i
BacklogKey(i) == PredictionKey(BacklogSession, BacklogTime(i))
BacklogKeys == {BacklogKey(i) : i \in 1..BacklogLen}
BacklogList(k) == IF k = BacklogKey(1) THEN OldestList ELSE FillerList

InitEvalBacklog ==
    /\ prediction = [k \in BacklogKeys |->
            [predicted_files |-> BacklogList(k), exp |-> k[2] + Ms(PREDICTION_TTL)]]
    /\ predictions = [s \in Sessions |->
            IF s = BacklogSession
            THEN [list |-> [i \in 1..BacklogLen |-> BacklogKey(BacklogLen + 1 - i)],
                  exp |-> BacklogTime(BacklogLen) + Ms(SESSION_LIST_TTL)]
            ELSE [list |-> << >>, exp |-> 0]]
    /\ rolling = [k \in BacklogKeys |-> k[2]]
    /\ rollingData = [k \in BacklogKeys |->
            [predicted_files |-> Take(BacklogList(k), TOP_K), hit |-> "",
             exp |-> k[2] + Ms(ROLLING_WINDOW_SECONDS + ROLLING_DATA_EXTRA_TTL)]]
    /\ metrics = [hits |-> 0, misses |-> 0]
    /\ projMetrics = [p \in Projects |-> [hits |-> 0, misses |-> 0]]
    /\ logCalls = [i \in 1..BacklogLen |-> BacklogTime(i)]
    /\ unscoped = [hits |-> 0, misses |-> 0]

(***************************************************************************)
(* One more operation runs, within the bound of the model.                 *)
(***************************************************************************)
StepRequest(op, request, max) ==
    /\ nOps < max
    /\ nOps' = nOps + 1
    /\ lastOp' = op
    /\ lastReq' = request

StepWithin(op, max) == StepRequest(op, NoRequest, max)

Step(op) == StepWithin(op, MaxOps)

(***************************************************************************)
(* The clock advances.                                                     *)
(***************************************************************************)
Tick(d) == now' = now + d

(***************************************************************************)
(* POST /predict/log                                                       *)
(***************************************************************************)
LogPrediction(s, pf) ==
    /\ IF pf = << >>
       THEN UNCHANGED evalVars
       ELSE LET key == PredictionKey(s, now)
                old == IF Alive(predictions[s].exp) THEN predictions[s].list ELSE << >>
            IN  /\ prediction' = Put(prediction, key,
                        [predicted_files |-> pf, exp |-> now + Ms(PREDICTION_TTL)])
                /\ predictions' = [predictions EXCEPT ![s] =
                        [list |-> <<key>> \o old, exp |-> now + Ms(SESSION_LIST_TTL)]]
                /\ rolling' = ZRemRangeByScore(Put(rolling, key, now), 0,
                        now - Ms(ROLLING_WINDOW_SECONDS))
                /\ rollingData' = Put(rollingData, key,
                        [predicted_files |-> Take(pf, TOP_K), hit |-> "",
                         exp |-> now + Ms(ROLLING_WINDOW_SECONDS + ROLLING_DATA_EXTRA_TTL)])
                /\ logCalls' = Append(logCalls, now)
                /\ UNCHANGED <<metrics, projMetrics, unscoped>>

(***************************************************************************)
(* POST /predict/check, run as one step                                    *)
(***************************************************************************)
CheckHit(s, f, p) ==
    /\ LET keys == LRange(s)
           i == FirstMatch(keys, f)
       IN  IF i # 0
           THEN /\ metrics' = IncrHits(metrics)
                /\ projMetrics' = IncrProjectHits(projMetrics, p)
                /\ rollingData' = MarkHit(rollingData, keys[i])
                /\ unscoped' = IF p = NoProject THEN IncrHits(unscoped) ELSE unscoped
           ELSE /\ metrics' = IncrMisses(metrics)
                /\ projMetrics' = IncrProjectMisses(projMetrics, p)
                /\ UNCHANGED rollingData
                /\ unscoped' = IF p = NoProject THEN IncrMisses(unscoped) ELSE unscoped
    /\ UNCHANGED <<prediction, predictions, rolling, logCalls>>

(***************************************************************************)
(* POST /predict/finalize, run as one step                                 *)
(***************************************************************************)
Finalize(maxAge) ==
    /\ rollingData' = MarkMisses(rollingData, ZRangeByScore(rolling, 0, now - Ms(maxAge)))
    /\ UNCHANGED <<prediction, predictions, rolling, metrics, projMetrics, logCalls,
                   unscoped>>

vars == <<now, nOps, prediction, predictions, rolling, rollingData, metrics,
          projMetrics, logCalls, unscoped, lastOp, lastReq, chk, fin, firstSeen,
          armStats, currentArm, req, credited, outcomes, feedbacks,
          recency, frequency, tagAffinity, first_seen, recordedUnder, response,
          timeline, session_intents, tag_to_files, file_to_tags,
          disk, watching, events, inverted_index, files, changes, last_indexed,
          tag_count, tag_meta, enriched,
          session_files, transition,
          sequences, transition_counts, transition_timing, transitions,
          manager, whitelist_file, context_cache, rlock, threads, workers>>

ChkIdle == [pc |-> "idle", s |-> "", f |-> "", p |-> NoProject, keys |-> << >>, i |-> 0]
FinIdle == [pc |-> "idle", stale |-> << >>]

InitRace ==
    /\ chk = ChkIdle
    /\ fin = FinIdle
    /\ firstSeen = EmptyMap

NUM_ARMS == 8
Arms == 0..(NUM_ARMS - 1)
Requests == {"r1", "r2"}
Batches == {"b1", "b2"}
NoArm == -1

InitTuner ==
    /\ armStats = [a \in Arms |-> [alpha |-> 0, beta |-> 0]]
    /\ currentArm = 0
    /\ req = [r \in Requests |-> [pc |-> "start", arm |-> NoArm]]
    /\ credited = [r \in Requests |-> NoArm]
    /\ outcomes = [b \in Batches |-> 0]
    /\ feedbacks = [a \in Arms |-> [hits |-> 0, misses |-> 0]]

Files == {"a.py", "b.py", "c.py"}
Tags == {"api", "db"}
TagSets == {{}, {"api"}, {"api", "db"}}
Limits == {1, 2}
NoResponse == [kind |-> "none", project |-> NoProject, files |-> << >>]

InitScore ==
    /\ recency = EmptyMap
    /\ frequency = EmptyMap
    /\ tagAffinity = [t \in Tags |-> EmptyMap]
    /\ first_seen = EmptyMap
    /\ recordedUnder = [f \in Files |-> {}]
    /\ response = NoResponse

DEFAULT_PROJECT == "_global"
IntentProjectIds == {NoProject, "p1", DEFAULT_PROJECT}

\* IntentIndex._project_key
ProjectKey(project_id) == IF project_id # NoProject THEN project_id ELSE DEFAULT_PROJECT

ProjectKeys == {ProjectKey(p) : p \in IntentProjectIds}

\* IntentIndex.__init__: every map is a defaultdict
InitIntent ==
    /\ timeline = [k \in ProjectKeys |-> << >>]
    /\ session_intents = [k \in ProjectKeys |-> EmptyMap]
    /\ tag_to_files = [k \in ProjectKeys |-> EmptyMap]
    /\ file_to_tags = [k \in ProjectKeys |-> << >>]

IndexedFiles == {"a.py", "b.py"}
NoFile == [exists |-> FALSE, content |-> "", mtime |-> 0]

\* CodebaseIndex.__init__ over an empty root, the watcher not yet started, Redis empty
InitIndex ==
    /\ disk = [f \in IndexedFiles |-> NoFile]
    /\ watching = FALSE
    /\ events = << >>
    /\ inverted_index = EmptyMap
    /\ files = EmptyMap
    /\ changes = << >>
    /\ last_indexed = StartTime \div 1000
    /\ tag_count = EmptyMap
    /\ tag_meta = EmptyMap
    /\ enriched = EmptyMap

SessionFiles == {"agent-1.jsonl", "agent-2.jsonl"}

\* no session log has an event yet and nothing was synced
InitBatch ==
    /\ session_files = [sf \in SessionFiles |-> << >>]
    /\ transition = EmptyMap

\* an empty Redis
InitTracker ==
    /\ sequences = [s \in Sessions |-> << >>]
    /\ transition_counts = EmptyMap
    /\ transition_timing = EmptyMap
    /\ transitions = EmptyMap

SearchThreads == {"t1", "t2"}
\* the watcher thread, which writes the index in index_file
WatcherThread == "watcher"
IndexThreads == SearchThreads \cup {WatcherThread}
TrackerThreads == {"w1", "w2"}
NoThread == ""
\* a thread of the server that is not inside SequenceTracker.record_access
IdleWorker ==
    [pc |-> "idle", session_id |-> "", file_path |-> "", recent |-> << >>,
     from_file |-> "", counts |-> EmptyMap, todo |-> {}]

\* a manager before any project is loaded, no whitelist file yet, an empty
\* cache, a free lock and idle threads
\* has_local: CODEBASE_ROOT exists, so the manager was built with a legacy local index
InitServiceWith(has_local) ==
    /\ manager = [local |-> has_local, projects |-> << >>]
    /\ whitelist_file = [exists |-> FALSE, lines |-> << >>]
    /\ context_cache = EmptyMap
    /\ rlock = [owner |-> NoThread, count |-> 0]
    /\ threads = [t \in IndexThreads |-> "idle"]
    /\ workers = [w \in TrackerThreads |-> IdleWorker]

InitService == InitServiceWith(FALSE)

InitExtra == InitIntent /\ InitIndex /\ InitBatch /\ InitTracker /\ InitService

Init == InitClock /\ InitEval /\ InitRace /\ InitTuner /\ InitScore /\ InitExtra

\* the tracker after session s1 read a.py and then b.py, and session s2 read
\* a.py, all within the same millisecond
InitLive ==
    /\ InitClock /\ InitEval /\ InitRace /\ InitTuner /\ InitScore
    /\ InitIntent /\ InitIndex /\ InitBatch /\ InitService
    /\ sequences = [s \in Sessions |->
            IF s = "s1" THEN <<[file_path |-> "b.py", timestamp |-> StartTime],
                               [file_path |-> "a.py", timestamp |-> StartTime]>>
            ELSE <<[file_path |-> "a.py", timestamp |-> StartTime]>>]
    /\ transition_counts = Put(EmptyMap, "a.py", Put(EmptyMap, "b.py", 1))
    /\ transition_timing = Put(EmptyMap, <<"a.py", "b.py">>, <<0>>)
    /\ transitions = Put(EmptyMap, "a.py", EmptyMap)

\* the manager in either mode: with the legacy local index or without it
InitManager ==
    /\ InitClock /\ InitEval /\ InitRace /\ InitTuner /\ InitScore
    /\ InitIntent /\ InitIndex /\ InitBatch /\ InitTracker
    /\ \E has_local \in BOOLEAN : InitServiceWith(has_local)

InitBacklog == InitClock /\ InitEvalBacklog /\ InitRace /\ InitTuner /\ InitScore /\ InitExtra

\* the reads of the sample session, in order
SampleReads == <<"a.py", "b.py", "a.py", "c.py", "b.py", "c.py">>

\* the tool events of the sample session: its reads and an edit between them
SampleEvents ==
    <<[tool |-> "Read", file_path |-> "a.py"], [tool |-> "Edit", file_path |-> "c.py"],
      [tool |-> "Read", file_path |-> "b.py"], [tool |-> "Read", file_path |-> "a.py"],
      [tool |-> "Read", file_path |-> "c.py"], [tool |-> "Read", file_path |-> "b.py"],
      [tool |-> "Read", file_path |-> "c.py"]>>

\* one session log holds the sample session, nothing was synced or tracked yet
InitBatchSample ==
    /\ session_files = [sf \in SessionFiles |->
                            IF sf = "agent-1.jsonl" THEN SampleEvents ELSE << >>]
    /\ transition = EmptyMap

InitSample ==
    /\ InitClock /\ InitEval /\ InitRace /\ InitTuner /\ InitScore
    /\ InitIntent /\ InitIndex /\ InitBatchSample /\ InitTracker /\ InitService

EvalTick ==
    \E d \in TickSteps : Step("tick") /\ Tick(d) /\ UNCHANGED <<evalVars, raceVars, tunerVars, scoreVars, extraVars>>
EvalLog ==
    \E s \in Sessions, pf \in PredictionLists :
        Step("log") /\ LogPrediction(s, pf) /\ UNCHANGED <<now, raceVars, tunerVars, scoreVars, extraVars>>
EvalCheck ==
    \E s \in Sessions, f \in ReadFiles, p \in ProjectIds :
        /\ StepRequest("check", [s |-> s, f |-> f, p |-> p], MaxOps)
        /\ CheckHit(s, f, p)
        /\ UNCHANGED <<now, raceVars, tunerVars, scoreVars, extraVars>>
EvalFinalize ==
    \E m \in MaxAges :
        Step("finalize") /\ Finalize(m) /\ UNCHANGED <<now, raceVars, tunerVars, scoreVars, extraVars>>

Next == EvalTick \/ EvalLog \/ EvalCheck \/ EvalFinalize

Spec == (Init \/ InitBacklog) /\ [][Next]_vars

(***************************************************************************)
(* /predict/check and /predict/finalize as the threads of the server run   *)
(* them: every round trip to the store is a step of its own, and the steps *)
(* of a check and of a finalize in flight interleave.                      *)
(***************************************************************************)
SessionRank == [s \in Sessions |-> IF s = "s1" THEN 1 ELSE 2]

\* the order of a sorted set: by score, then by member
KeyBefore(a, b) ==
    \/ rolling[a] < rolling[b]
    \/ rolling[a] = rolling[b] /\ a[2] < b[2]
    \/ rolling[a] = rolling[b] /\ a[2] = b[2] /\ SessionRank[a[1]] <= SessionRank[b[1]]

RECURSIVE SortKeys(_)
SortKeys(S) ==
    IF S = {} THEN << >>
    ELSE LET m == CHOOSE x \in S : \A y \in S : KeyBefore(x, y)
         IN  <<m>> \o SortKeys(S \ {m})

\* history: who reads the flag of batch k as '' before anyone else does
Observe(k, who) ==
    IF HGetHit(rollingData, k) = "" /\ k \notin DOMAIN firstSeen
    THEN Put(firstSeen, k, who)
    ELSE firstSeen

\* prediction_keys = lrange(session_predictions_key, 0, 10)
ChkStart(s, f, p) ==
    /\ chk.pc = "idle"
    /\ chk' = [pc |-> "get", s |-> s, f |-> f, p |-> p, keys |-> LRange(s), i |-> 1]
    /\ UNCHANGED <<evalVars, fin, firstSeen>>

\* pred_data = get(pred_key) and the membership test, for the next key of the loop
ChkGet ==
    /\ chk.pc = "get"
    /\ chk' = IF chk.i > Len(chk.keys) THEN [chk EXCEPT !.pc = "incrMisses"]
              ELSE IF Matches(chk.keys[chk.i], chk.f) THEN [chk EXCEPT !.pc = "incrHits"]
              ELSE [chk EXCEPT !.i = @ + 1]
    /\ UNCHANGED <<evalVars, fin, firstSeen>>

\* incr('aoa:metrics:hits')
ChkIncrHits ==
    /\ chk.pc = "incrHits"
    /\ metrics' = IncrHits(metrics)
    /\ chk' = [chk EXCEPT !.pc = "incrProjectHits"]
    /\ UNCHANGED <<prediction, predictions, rolling, rollingData, projMetrics, logCalls,
                   unscoped, fin, firstSeen>>

\* if project_id: incr(f'aoa:{project_id}:metrics:hits')
ChkIncrProjectHits ==
    /\ chk.pc = "incrProjectHits"
    /\ projMetrics' = IncrProjectHits(projMetrics, chk.p)
    /\ unscoped' = IF chk.p = NoProject THEN IncrHits(unscoped) ELSE unscoped
    /\ chk' = [chk EXCEPT !.pc = "hget"]
    /\ UNCHANGED <<prediction, predictions, rolling, rollingData, metrics, logCalls,
                   fin, firstSeen>>

\* current_hit = hget(rolling_data_key, 'hit')
ChkHGet ==
    /\ chk.pc = "hget"
    /\ firstSeen' = Observe(chk.keys[chk.i], "check")
    /\ chk' = IF HGetHit(rollingData, chk.keys[chk.i]) = ""
              THEN [chk EXCEPT !.pc = "hset"]
              ELSE ChkIdle
    /\ UNCHANGED <<evalVars, fin>>

\* hset(rolling_data_key, 'hit', '1')
ChkHSet ==
    /\ chk.pc = "hset"
    /\ rollingData' = HSetHit(rollingData, chk.keys[chk.i], "1")
    /\ chk' = ChkIdle
    /\ UNCHANGED <<prediction, predictions, rolling, metrics, projMetrics, logCalls,
                   unscoped, fin, firstSeen>>

\* incr('aoa:metrics:misses')
ChkIncrMisses ==
    /\ chk.pc = "incrMisses"
    /\ metrics' = IncrMisses(metrics)
    /\ chk' = [chk EXCEPT !.pc = "incrProjectMisses"]
    /\ UNCHANGED <<prediction, predictions, rolling, rollingData, projMetrics, logCalls,
                   unscoped, fin, firstSeen>>

\* if project_id: incr(f'aoa:{project_id}:metrics:misses')
ChkIncrProjectMisses ==
    /\ chk.pc = "incrProjectMisses"
    /\ projMetrics' = IncrProjectMisses(projMetrics, chk.p)
    /\ unscoped' = IF chk.p = NoProject THEN IncrMisses(unscoped) ELSE unscoped
    /\ chk' = ChkIdle
    /\ UNCHANGED <<prediction, predictions, rolling, rollingData, metrics, logCalls,
                   fin, firstSeen>>

\* stale_keys = zrangebyscore(rolling_key, 0, cutoff)
FinStart(maxAge) ==
    /\ fin.pc = "idle"
    /\ LET stale == SortKeys(ZRangeByScore(rolling, 0, now - Ms(maxAge)))
       IN  fin' = [pc |-> IF stale = << >> THEN "idle" ELSE "hget", stale |-> stale]
    /\ UNCHANGED <<evalVars, chk, firstSeen>>

\* hit_value = hget(rolling_data_key, 'hit'), for the next stale key
FinHGet ==
    /\ fin.pc = "hget"
    /\ firstSeen' = Observe(Head(fin.stale), "finalize")
    /\ fin' = IF HGetHit(rollingData, Head(fin.stale)) = ""
              THEN [fin EXCEPT !.pc = "hset"]
              ELSE IF Len(fin.stale) = 1 THEN FinIdle
              ELSE [fin EXCEPT !.stale = Tail(@)]
    /\ UNCHANGED <<evalVars, chk>>

\* hset(rolling_data_key, 'hit', '0')
FinHSet ==
    /\ fin.pc = "hset"
    /\ rollingData' = HSetHit(rollingData, Head(fin.stale), "0")
    /\ fin' = IF Len(fin.stale) = 1 THEN FinIdle
              ELSE [pc |-> "hget", stale |-> Tail(fin.stale)]
    /\ UNCHANGED <<prediction, predictions, rolling, metrics, projMetrics, logCalls,
                   unscoped, chk, firstSeen>>

\* a /predict/log call; it starts the history of the batch it writes afresh
RaceLog ==
    \E s \in Sessions, pf \in PredictionLists \ {<< >>} :
        /\ StepWithin("log", MaxRaceOps)
        /\ LogPrediction(s, pf)
        /\ firstSeen' = [k \in (DOMAIN firstSeen) \ {PredictionKey(s, now)} |-> firstSeen[k]]
        /\ UNCHANGED <<now, chk, fin, tunerVars, scoreVars, extraVars>>

RaceTick ==
    \E d \in TickSteps :
        /\ StepWithin("tick", MaxRaceOps)
        /\ Tick(d)
        /\ UNCHANGED <<evalVars, raceVars, tunerVars, scoreVars, extraVars>>

RaceCheck ==
    \E s \in Sessions, f \in ReadFiles, p \in ProjectIds :
        /\ StepWithin("check", MaxRaceOps)
        /\ ChkStart(s, f, p)
        /\ UNCHANGED <<now, tunerVars, scoreVars, extraVars>>

RaceFinalize ==
    \E m \in MaxAges :
        /\ StepWithin("finalize", MaxRaceOps)
        /\ FinStart(m)
        /\ UNCHANGED <<now, tunerVars, scoreVars, extraVars>>

\* a request in flight takes its next step
Inner(step) == step /\ UNCHANGED <<now, nOps, lastOp, lastReq, tunerVars, scoreVars, extraVars>>

NextRace ==
    \/ RaceLog
    \/ RaceTick
    \/ RaceCheck
    \/ RaceFinalize
    \/ Inner(ChkGet)
    \/ Inner(ChkIncrHits)
    \/ Inner(ChkIncrProjectHits)
    \/ Inner(ChkHGet)
    \/ Inner(ChkHSet)
    \/ Inner(ChkIncrMisses)
    \/ Inner(ChkIncrProjectMisses)
    \/ Inner(FinHGet)
    \/ Inner(FinHSet)

SpecRace == Init /\ [][NextRace]_vars

(***************************************************************************)
(* The weight tuner (WeightTuner) and its HTTP surface.                    *)
(***************************************************************************)
\* _update_arm_stats writing the field instead of incrementing it (variant)
UpdateArmStats_Set(stats, arm, hit) ==
    IF hit THEN [stats EXCEPT ![arm].alpha = 1]
    ELSE [stats EXCEPT ![arm].beta = 1]

\* _get_arm_stats with the two fields exchanged (variant)
GetArmStats_Swapped(arm) == <<armStats[arm].beta + 1, armStats[arm].alpha + 1>>

\* _update_arm_stats: hincrby(key, "alpha", 1) on a hit, hincrby(key, "beta", 1) otherwise
UpdateArmStats(stats, arm, hit) ==
    IF hit THEN [stats EXCEPT ![arm].alpha = @ + 1]
    ELSE [stats EXCEPT ![arm].beta = @ + 1]

\* _get_arm_stats: the Beta parameters are the stored counts plus the prior of 1
GetArmStats(arm) == <<armStats[arm].alpha + 1, armStats[arm].beta + 1>>

\* select_weights: one sample of Beta(alpha, beta) per arm and the arm with the
\* largest sample; every Beta(alpha, beta) has all of (0, 1) as its support, so
\* the samples can make any arm the largest. The arm is stored in _current_arm
\* and returned as '_arm_idx'.
SelectWeights(r, arm) ==
    /\ req[r].pc = "start"
    /\ currentArm' = arm
    /\ req' = [req EXCEPT ![r] = [pc |-> "selected", arm |-> arm]]
    /\ UNCHANGED <<armStats, credited, outcomes, feedbacks>>

\* the caller's report, counted apart from the stored hashes
Reported(arm, hit) ==
    IF hit THEN [feedbacks EXCEPT ![arm].hits = @ + 1]
    ELSE [feedbacks EXCEPT ![arm].misses = @ + 1]

\* record_feedback(hit) with no arm_idx: arm = self._current_arm
RecordFeedback(r, hit) ==
    /\ req[r].pc = "selected"
    /\ armStats' = UpdateArmStats(armStats, currentArm, hit)
    /\ feedbacks' = Reported(currentArm, hit)
    /\ credited' = [credited EXCEPT ![r] = currentArm]
    /\ req' = [req EXCEPT ![r].pc = "done"]
    /\ UNCHANGED <<currentArm, outcomes>>

\* POST /tuner/feedback {arm_idx, hit}: record_feedback(hit=hit, arm_idx=arm_idx).
\* b is the prediction batch the caller reports on; the request does not carry it.
TunerFeedback(b, arm, hit) ==
    /\ armStats' = UpdateArmStats(armStats, arm, hit)
    /\ outcomes' = [outcomes EXCEPT ![b] = @ + 1]
    /\ feedbacks' = Reported(arm, hit)
    /\ UNCHANGED <<currentArm, req, credited>>

\* POST /tuner/reset: delete every arm's hash
TunerReset ==
    /\ armStats' = [a \in Arms |-> [alpha |-> 0, beta |-> 0]]
    /\ feedbacks' = [a \in Arms |-> [hits |-> 0, misses |-> 0]]
    /\ UNCHANGED <<currentArm, req, credited, outcomes>>

TunerSelect ==
    \E r \in Requests, arm \in Arms :
        /\ StepWithin("select", MaxTunerOps)
        /\ SelectWeights(r, arm)
        /\ UNCHANGED <<now, evalVars, raceVars, scoreVars, extraVars>>

TunerRecord ==
    \E r \in Requests, hit \in BOOLEAN :
        /\ StepWithin("record", MaxTunerOps)
        /\ RecordFeedback(r, hit)
        /\ UNCHANGED <<now, evalVars, raceVars, scoreVars, extraVars>>

TunerPost ==
    \E b \in Batches, arm \in Arms, hit \in BOOLEAN :
        /\ StepWithin("feedback", MaxTunerOps)
        /\ TunerFeedback(b, arm, hit)
        /\ UNCHANGED <<now, evalVars, raceVars, scoreVars, extraVars>>

TunerClear ==
    /\ StepWithin("reset", MaxTunerOps)
    /\ TunerReset
    /\ UNCHANGED <<now, evalVars, raceVars, scoreVars, extraVars>>

NextTuner == TunerSelect \/ TunerRecord \/ TunerPost \/ TunerClear

SpecTuner == Init /\ [][NextTuner]_vars

(***************************************************************************)
(* The scorer (Scorer) behind /rank/record, /rank and /predict.  The       *)
(* scores are Python floats; they are computed here in fixed point with    *)
(* four decimal places, and the clock of the scorer is in whole seconds.   *)
(***************************************************************************)
\* one unit of the fixed point: 10^-4, the precision of round(confidence, 4)
FIX == 10000
RECENCY_HALF_LIFE == 3600
MIN_ACCESSES_FULL_CONFIDENCE == 20
MIN_HOURS_FULL_CONFIDENCE == 24
\* DEFAULT_WEIGHTS, in hundredths
W_RECENCY == 40
W_FREQUENCY == 30
W_TAG == 30
\* EVIDENCE_WEIGHT and STABILITY_WEIGHT, in tenths
EVIDENCE_WEIGHT == 7
STABILITY_WEIGHT == 3

Min(a, b) == IF a < b THEN a ELSE b

\* int(time.time())
NowSeconds == now \div 1000

\* math.exp(-q) for a natural q: below half a unit of the fixed point from q = 10 on
EXP_NEG == <<3679, 1353, 498, 183, 67, 25, 9, 3, 1>>
ExpNegInt(q) == IF q = 0 THEN FIX ELSE IF q > Len(EXP_NEG) THEN 0 ELSE EXP_NEG[q]

\* math.exp(-x) for 0 <= x < 1, x in fixed point: the series up to x^8 / 8!
ExpNegFrac(x) ==
    LET t2 == (x * x) \div (2 * FIX)
        t3 == (t2 * x) \div (3 * FIX)
        t4 == (t3 * x) \div (4 * FIX)
        t5 == (t4 * x) \div (5 * FIX)
        t6 == (t5 * x) \div (6 * FIX)
        t7 == (t6 * x) \div (7 * FIX)
        t8 == (t7 * x) \div (8 * FIX)
    IN  FIX - x + t2 - t3 + t4 - t5 + t6 - t7 + t8

\* math.exp(-age_seconds / RECENCY_HALF_LIFE)
ExpDecay(age) ==
    LET q == age \div RECENCY_HALF_LIFE
        r == age % RECENCY_HALF_LIFE
    IN  (ExpNegInt(q) * ExpNegFrac((r * FIX) \div RECENCY_HALF_LIFE)) \div FIX

\* math.log1p(n) / math.log1p(MIN_ACCESSES_FULL_CONFIDENCE), n >= 1
LOG1P_RATIO ==
    <<2277, 3608, 4553, 5286, 5885, 6392, 6830, 7217, 7563, 7876,
      8162, 8425, 8668, 8895, 9107, 9306, 9494, 9671, 9840>>
Log1pRatio(n) == IF n >= MIN_ACCESSES_FULL_CONFIDENCE THEN FIX ELSE LOG1P_RATIO[n]

\* the largest score of a sorted set: max((f[1] for f in zset), default=1)
MaxScore(z) ==
    IF DOMAIN z = {} THEN 1
    ELSE CHOOSE m \in {z[f] : f \in DOMAIN z} : \A f \in DOMAIN z : z[f] <= m

\* ZINCRBY key 1 member
ZIncrBy(z, f) == IF f \in DOMAIN z THEN [z EXCEPT ![f] = @ + 1] ELSE Put(z, f, 1)

\* Scorer.record_access(file_path, tags): every key it writes is named by the
\* file or the tag alone
RecordAccess(f, tags) ==
    /\ recency' = Put(recency, f, NowSeconds)
    /\ frequency' = ZIncrBy(frequency, f)
    /\ first_seen' = IF f \in DOMAIN first_seen THEN first_seen ELSE Put(first_seen, f, NowSeconds)
    /\ tagAffinity' = [t \in Tags |-> IF t \in tags THEN ZIncrBy(tagAffinity[t], f)
                                      ELSE tagAffinity[t]]

\* the files get_ranked_files scores: those of aoa:recency, of aoa:frequency and
\* of the sorted set of each tag of the query
ScoredFiles(tags) ==
    (DOMAIN recency) \cup (DOMAIN frequency) \cup UNION {DOMAIN tagAffinity[t] : t \in tags}

RecencyScore(f) ==
    IF f \in DOMAIN recency THEN 100 * ExpDecay(NowSeconds - recency[f]) ELSE 0

FrequencyScore(f) ==
    IF f \in DOMAIN frequency THEN (frequency[f] * 100 * FIX) \div MaxScore(frequency) ELSE 0

TagScore(t, f) ==
    IF f \in DOMAIN tagAffinity[t]
    THEN (tagAffinity[t][f] * 100 * FIX) \div MaxScore(tagAffinity[t])
    ELSE 0

RECURSIVE SumTagScores(_, _)
SumTagScores(tags, f) ==
    IF tags = {} THEN 0
    ELSE LET t == CHOOSE x \in tags : TRUE
         IN  TagScore(t, f) + SumTagScores(tags \ {t}, f)

\* composite = recency * w_recency + frequency * w_frequency
\*             + sum over the query's tags of tag score * (w_tag / len(tags))
CompositeWith(weights, f, tags) ==
    (weights.recency * RecencyScore(f) + weights.frequency * FrequencyScore(f)) \div 100
    + (IF tags # {} /\ \E t \in tags : f \in DOMAIN tagAffinity[t]
       THEN (weights.tag * SumTagScores(tags, f)) \div (100 * Cardinality(tags))
       ELSE 0)

\* self.weights = DEFAULT_WEIGHTS.copy()
DefaultWeights == [recency |-> W_RECENCY, frequency |-> W_FREQUENCY, tag |-> W_TAG]

\* max(0.0, min(1.0, weight)), in hundredths
ClampWeight(weight) == IF weight < 0 THEN 0 ELSE IF weight > 100 THEN 100 ELSE weight

\* Scorer.set_weights(recency, frequency, tag): << >> stands for None
SetWeights(weights, new_recency, new_frequency, new_tag) ==
    [recency |-> IF new_recency = << >> THEN weights.recency ELSE ClampWeight(new_recency[1]),
     frequency |-> IF new_frequency = << >> THEN weights.frequency
                   ELSE ClampWeight(new_frequency[1]),
     tag |-> IF new_tag = << >> THEN weights.tag ELSE ClampWeight(new_tag[1])]

\* the composite score under the weights the scorer starts with
Composite(f, tags) == CompositeWith(DefaultWeights, f, tags)

\* Scorer.calculate_confidence
Evidence(n) ==
    Min(FIX, (3 * FIX) \div 10 + (EVIDENCE_WEIGHT * Log1pRatio(n)) \div 10)

Stability(span) ==
    IF span >= MIN_HOURS_FULL_CONFIDENCE * 3600 THEN FIX
    ELSE FIX \div 2 + ((FIX \div 2) * span) \div (MIN_HOURS_FULL_CONFIDENCE * 3600)

CalculateConfidence(composite, n, span) ==
    ((composite \div 100) * ((EVIDENCE_WEIGHT * Evidence(n) + STABILITY_WEIGHT * Stability(span)) \div 10))
        \div FIX

Confidence(f, tags) ==
    CalculateConfidence(Composite(f, tags),
                        IF f \in DOMAIN frequency THEN frequency[f] ELSE 1,
                        IF f \in DOMAIN first_seen THEN NowSeconds - first_seen[f] ELSE 0)

FileRank == [f \in Files |-> IF f = "a.py" THEN 1 ELSE IF f = "b.py" THEN 2 ELSE 3]

\* the order in which get_ranked_files meets the files: ZREVRANGE of aoa:recency
\* (newest first, equal scores in reverse order of the names), then the files
\* that only the later sorted sets hold
MetBefore(a, b) ==
    IF a \in DOMAIN recency /\ b \in DOMAIN recency
    THEN \/ recency[a] > recency[b]
         \/ recency[a] = recency[b] /\ FileRank[a] >= FileRank[b]
    ELSE \/ a \in DOMAIN recency
         \/ b \notin DOMAIN recency /\ FileRank[a] >= FileRank[b]

\* sorted(..., key=composite, reverse=True) over <<composite, file>> pairs:
\* stable, so ties keep the order above
RankedBefore(a, b) ==
    \/ a[1] > b[1]
    \/ a[1] = b[1] /\ MetBefore(a[2], b[2])

RECURSIVE SortRanked(_)
SortRanked(scored) ==
    IF scored = {} THEN << >>
    ELSE LET m == CHOOSE x \in scored : \A y \in scored : RankedBefore(x, y)
         IN  <<m[2]>> \o SortRanked(scored \ {m})

\* Scorer.get_ranked_files(tags, limit): the files of the best composite scores
GetRankedFiles(tags, limit) ==
    Take(SortRanked({<<Composite(f, tags), f>> : f \in ScoredFiles(tags)}), limit)

\* round(confidence, 3)
Round3(c) == (c + 5) \div 10

\* files.sort(key=confidence, reverse=True) of /predict: stable on the order of
\* the ranked list
RECURSIVE SortByConfidence(_, _)
SortByConfidence(seq, confidence) ==
    IF seq = << >> THEN << >>
    ELSE LET i == CHOOSE j \in 1..Len(seq) :
                      /\ \A k \in 1..Len(seq) : confidence[seq[j]] >= confidence[seq[k]]
                      /\ \A k \in 1..(j - 1) : confidence[seq[k]] < confidence[seq[j]]
         IN  <<seq[i]>> \o SortByConfidence(SubSeq(seq, 1, i - 1) \o SubSeq(seq, i + 1, Len(seq)),
                                             confidence)

\* POST /rank/record {file, tags}: the body's other fields are not read; p is
\* the project of the caller
RankRecord(f, tags, p) ==
    /\ RecordAccess(f, tags)
    /\ recordedUnder' = [recordedUnder EXCEPT ![f] = @ \cup {p}]
    /\ UNCHANGED response

\* GET /rank?tag=..&limit=..: p is the project of the caller
RankFiles(tags, limit, p) ==
    /\ response' = [kind |-> "rank", project |-> p, files |-> GetRankedFiles(tags, limit)]
    /\ UNCHANGED <<recency, frequency, tagAffinity, first_seen, recordedUnder>>

\* GET /predict?tags=..&limit=.. with no trigger file: the first limit entries
\* of get_ranked_files(tags, limit * 2), sorted again by confidence
PredictFiles(tags, limit, p) ==
    /\ LET results == Take(GetRankedFiles(tags, limit * 2), limit)
           confidence == [f \in Range(results) |-> Round3(Confidence(f, tags))]
       IN  response' = [kind |-> "predict", project |-> p,
                        files |-> Take(SortByConfidence(results, confidence), limit)]
    /\ UNCHANGED <<recency, frequency, tagAffinity, first_seen, recordedUnder>>

\* the steps of the clock that the scorer can tell apart
ScoreTickSteps == {Ms(PREDICTION_TTL), Ms(RECENCY_HALF_LIFE), Ms(ROLLING_WINDOW_SECONDS)}

ScoreTick ==
    \E d \in ScoreTickSteps :
        /\ StepWithin("tick", MaxScoreOps)
        /\ Tick(d)
        /\ UNCHANGED <<evalVars, raceVars, tunerVars, scoreVars, extraVars>>

ScoreRecord ==
    \E f \in Files, tags \in TagSets, p \in ProjectIds :
        /\ StepWithin("record", MaxScoreOps)
        /\ RankRecord(f, tags, p)
        /\ UNCHANGED <<now, evalVars, raceVars, tunerVars, extraVars>>

ScoreRank ==
    \E tags \in TagSets, limit \in Limits, p \in ProjectIds :
        /\ StepWithin("rank", MaxScoreOps)
        /\ RankFiles(tags, limit, p)
        /\ UNCHANGED <<now, evalVars, raceVars, tunerVars, extraVars>>

ScorePredict ==
    \E tags \in TagSets, limit \in Limits, p \in ProjectIds :
        /\ StepWithin("predict", MaxScoreOps)
        /\ PredictFiles(tags, limit, p)
        /\ UNCHANGED <<now, evalVars, raceVars, tunerVars, extraVars>>

NextScore == ScoreTick \/ ScoreRecord \/ ScoreRank \/ ScorePredict

SpecScore == Init /\ [][NextScore]_vars

(***************************************************************************)
(* The intent index (IntentIndex) behind /intent and /intent/*.  Record    *)
(* runs under the index's lock; the queries are functions of the state.    *)
(* The tool name and the correlation id of a record are left out: no       *)
(* operation reads them.                                                   *)
(***************************************************************************)
IntentFiles == {"/p/a.py", "/q/a.py", "a.py"}
IntentTags == {"#x", "#y"}
\* a file argument of a query: a recorded path, a bare name or the missing argument
FileArgs == IntentFiles \cup {"b.py", ""}

\* the characters of a path
Chars ==
    [f \in FileArgs |->
        CASE f = "/p/a.py" -> <<"/", "p", "/", "a", ".", "p", "y">>
          [] f = "/q/a.py" -> <<"/", "q", "/", "a", ".", "p", "y">>
          [] f = "a.py" -> <<"a", ".", "p", "y">>
          [] f = "b.py" -> <<"b", ".", "p", "y">>
          [] OTHER -> << >>]

\* f.endswith(file)
EndsWith(f, file) ==
    LET a == Chars[f]
        b == Chars[file]
    IN  Len(b) <= Len(a) /\ SubSeq(a, Len(a) - Len(b) + 1, Len(a)) = b

\* file in f
Contains(f, file) ==
    LET a == Chars[f]
        b == Chars[file]
    IN  \E i \in 0..(Len(a) - Len(b)) : SubSeq(a, i + 1, i + Len(b)) = b

\* the bodies of POST /intent: files, tags, file_sizes (the sizes in the order of
\* the dict) and output_size (0 when absent)
IntentBodies ==
    { [files |-> <<"/p/a.py">>, tags |-> <<"#x">>, file_sizes |-> << >>, output_size |-> 0],
      [files |-> <<"/q/a.py", "a.py">>, tags |-> <<"#x", "#y">>, file_sizes |-> <<0, 400>>,
       output_size |-> 100],
      [files |-> <<"a.py">>, tags |-> << >>, file_sizes |-> <<40>>, output_size |-> 100],
      [files |-> << >>, tags |-> <<"#y">>, file_sizes |-> << >>, output_size |-> 0] }

IntentRecordOf(body, session_id, project_id) ==
    [timestamp |-> NowSeconds, session_id |-> session_id, files |-> body.files,
     tags |-> body.tags, project_id |-> project_id, file_sizes |-> body.file_sizes,
     output_size |-> body.output_size]

\* for tag in tags: for f in files: self.tag_to_files[proj][tag].add(f)
AddFiles(byTag, paths, tags) ==
    IF paths = << >> THEN byTag
    ELSE [t \in (DOMAIN byTag) \cup Range(tags) |->
            IF t \in Range(tags)
            THEN (IF t \in DOMAIN byTag THEN byTag[t] ELSE {}) \cup Range(paths)
            ELSE byTag[t]]

\* the position of a file in the insertion-ordered dict, 0 if absent
IndexOfFile(byFile, f) ==
    IF \E i \in 1..Len(byFile) : byFile[i].file = f
    THEN CHOOSE i \in 1..Len(byFile) : byFile[i].file = f
    ELSE 0

\* a variant that stores only the first tag of a record under a file
AddTags_FirstTagOnly(byFile, paths, tags) ==
    IF tags = << >> \/ paths = << >> THEN byFile
    ELSE LET f == Head(paths)
             i == IndexOfFile(byFile, f)
         IN  IF i = 0 THEN Append(byFile, [file |-> f, tags |-> {Head(tags)}])
             ELSE [byFile EXCEPT ![i].tags = @ \cup {Head(tags)}]

\* for tag in tags: for f in files: self.file_to_tags[proj][f].add(tag)
RECURSIVE AddTags(_, _, _)
AddTags(byFile, paths, tags) ==
    IF tags = << >> \/ paths = << >> THEN byFile
    ELSE LET f == Head(paths)
             i == IndexOfFile(byFile, f)
             added == IF i = 0 THEN Append(byFile, [file |-> f, tags |-> Range(tags)])
                      ELSE [byFile EXCEPT ![i].tags = @ \cup Range(tags)]
         IN  AddTags(added, Tail(paths), tags)

\* a variant that puts the new record at the head of the timeline
IntentRecord_Prepended(body, session_id, project_id) ==
    LET proj == ProjectKey(project_id)
        record == IntentRecordOf(body, session_id, project_id)
    IN  /\ timeline' = [timeline EXCEPT ![proj] = <<record>> \o @]
        /\ session_intents' = [session_intents EXCEPT ![proj] =
               Put(@, session_id,
                   Append(IF session_id \in DOMAIN @ THEN @[session_id] ELSE << >>, record))]
        /\ tag_to_files' = [tag_to_files EXCEPT ![proj] = AddFiles(@, body.files, body.tags)]
        /\ file_to_tags' = [file_to_tags EXCEPT ![proj] = AddTags(@, body.files, body.tags)]

\* IntentIndex.record
IntentRecord(body, session_id, project_id) ==
    LET proj == ProjectKey(project_id)
        record == IntentRecordOf(body, session_id, project_id)
    IN  /\ timeline' = [timeline EXCEPT ![proj] = Append(@, record)]
        /\ session_intents' = [session_intents EXCEPT ![proj] =
               Put(@, session_id,
                   Append(IF session_id \in DOMAIN @ THEN @[session_id] ELSE << >>, record))]
        /\ tag_to_files' = [tag_to_files EXCEPT ![proj] = AddFiles(@, body.files, body.tags)]
        /\ file_to_tags' = [file_to_tags EXCEPT ![proj] = AddTags(@, body.files, body.tags)]

\* a variant that answers from the maps of every project
FilesForTag_AllProjects(tag, project_id) ==
    UNION {IF tag \in DOMAIN tag_to_files[k] THEN tag_to_files[k][tag] ELSE {} : k \in ProjectKeys}

\* IntentIndex.files_for_tag
FilesForTag(tag, project_id) ==
    LET byTag == tag_to_files[ProjectKey(project_id)]
    IN  IF tag \in DOMAIN byTag THEN byTag[tag] ELSE {}

\* the first file of the dict that the argument is a suffix or a part of, 0 if none
FirstPartial(byFile, file) ==
    LET idx == {i \in 1..Len(byFile) :
                    EndsWith(byFile[i].file, file) \/ Contains(byFile[i].file, file)}
    IN  IF idx = {} THEN 0 ELSE CHOOSE i \in idx : \A j \in idx : i <= j

\* IntentIndex.tags_for_file: the exact entry, else the first partial match
TagsForFile(file, project_id) ==
    LET byFile == file_to_tags[ProjectKey(project_id)]
        i == IndexOfFile(byFile, file)
        j == FirstPartial(byFile, file)
    IN  IF i # 0 THEN byFile[i].tags
        ELSE IF j # 0 THEN byFile[j].tags
        ELSE {}

\* records[-limit:]
LastSlice(seq, limit) ==
    IF limit = 0 \/ limit >= Len(seq) THEN seq
    ELSE SubSeq(seq, Len(seq) - limit + 1, Len(seq))

Reverse(seq) == [i \in 1..Len(seq) |-> seq[Len(seq) + 1 - i]]

Filter(seq, since) == SelectSeq(seq, LAMBDA r : r.timestamp >= since)

\* IntentIndex.recent(since, limit, project_id); since = 0 stands for None
Recent(since, limit, project_id) ==
    LET records == timeline[ProjectKey(project_id)]
    IN  Reverse(LastSlice(IF since # 0 THEN Filter(records, since) ELSE records, limit))

\* the first positive size of file_sizes, 0 if none
RECURSIVE FirstPositive(_)
FirstPositive(sizes) ==
    IF sizes = << >> THEN 0
    ELSE IF Head(sizes) > 0 THEN Head(sizes) ELSE FirstPositive(Tail(sizes))

Measured(record) == record.output_size > 0 /\ FirstPositive(record.file_sizes) > 0

\* the savings loop of get_stats: baseline and actual tokens and the measured records
RECURSIVE Savings(_)
Savings(seq) ==
    IF seq = << >> THEN [baseline |-> 0, actual |-> 0, measured |-> 0]
    ELSE LET rest == Savings(Tail(seq))
             r == Head(seq)
         IN  IF Measured(r)
             THEN [baseline |-> rest.baseline + FirstPositive(r.file_sizes) \div 4,
                   actual |-> rest.actual + r.output_size \div 4,
                   measured |-> rest.measured + 1]
             ELSE rest

\* IntentIndex.get_stats
IntentStats(project_id) ==
    LET proj == ProjectKey(project_id)
        sum == Savings(timeline[proj])
    IN  [total_records |-> Len(timeline[proj]),
         unique_tags |-> Cardinality(DOMAIN tag_to_files[proj]),
         unique_files |-> Len(file_to_tags[proj]),
         sessions |-> Cardinality(DOMAIN session_intents[proj]),
         project_id |-> project_id,
         tokens |-> IF sum.baseline > sum.actual THEN sum.baseline - sum.actual ELSE 0,
         baseline |-> sum.baseline,
         actual |-> sum.actual,
         measured_records |-> sum.measured]

IntentFrame ==
    UNCHANGED <<evalVars, raceVars, serviceVars, tunerVars, scoreVars, indexVars, batchVars, trackerVars>>

IntentTickSteps == {Ms(1), Ms(PREDICTION_TTL)}

IntentTick ==
    \E d \in IntentTickSteps :
        /\ StepWithin("tick", MaxIntentOps)
        /\ Tick(d)
        /\ UNCHANGED intentVars
        /\ IntentFrame

\* the posts explored: every body from the first session, the bodies with an
\* output size from the second one as well
IntentPosts == {post \in IntentBodies \X Sessions : post[2] = "s1" \/ post[1].output_size > 0}

IntentPost ==
    \E post \in IntentPosts, project_id \in IntentProjectIds :
      LET body == post[1]
          session_id == post[2]
      IN
        /\ StepRequest("intent", [s |-> session_id, f |-> "", p |-> project_id], MaxIntentOps)
        /\ IntentRecord(body, session_id, project_id)
        /\ UNCHANGED now
        /\ IntentFrame

NextIntent == IntentTick \/ IntentPost

SpecIntent == Init /\ [][NextIntent]_vars

(***************************************************************************)
(* The codebase index (CodebaseIndex), its watcher (IndexerHandler) and    *)
(* the tag enrichment endpoint (/outline/enriched).  The files of the      *)
(* model are indexable Python files without import statements, so the      *)
(* import graph stays empty.  full_scan runs once, before the watcher is   *)
(* started; the watcher delivers its events on one thread, in order.       *)
(***************************************************************************)
Contents == {"foo Bar", "Bar\nx = 1"}

\* hashlib.md5(content.encode()).hexdigest()[:16]
ContentHash(content) ==
    CASE content = "foo Bar" -> "9ee1c1f56d75001f"
      [] content = "Bar\nx = 1" -> "7c4fc8c42e440387"

\* stat.st_size
ContentSize(content) ==
    CASE content = "foo Bar" -> 7
      [] content = "Bar\nx = 1" -> 9

\* CodebaseIndex.tokenize: the identifiers of two or more characters with line and column
Tokenize(content) ==
    CASE content = "foo Bar" -> <<[token |-> "foo", line |-> 1, col |-> 0],
                                  [token |-> "Bar", line |-> 1, col |-> 4]>>
      [] content = "Bar\nx = 1" -> <<[token |-> "Bar", line |-> 1, col |-> 0]>>

\* token.lower()
Lower(token) == IF token = "Bar" THEN "bar" ELSE token

None == "None"

TokenLocation(rel_path, tok, mtime) ==
    [file |-> rel_path, line |-> tok.line, col |-> tok.col, symbol_type |-> "token",
     mtime |-> mtime, symbol |-> None, symbol_kind |-> None, end_line |-> None]

\* self.inverted_index[token].append(loc)
AppendLocation(index, token, loc) ==
    Put(index, token, Append(IF token \in DOMAIN index THEN index[token] ELSE << >>, loc))

\* the loop of index_file over the tokens of the content
RECURSIVE AppendTokens(_, _, _, _)
AppendTokens(index, toks, rel_path, mtime) ==
    IF toks = << >> THEN index
    ELSE LET tok == Head(toks)
             loc == TokenLocation(rel_path, tok, mtime)
             one == AppendLocation(index, tok.token, loc)
             two == IF Lower(tok.token) # tok.token
                    THEN AppendLocation(one, Lower(tok.token), loc) ELSE one
         IN  AppendTokens(two, Tail(toks), rel_path, mtime)

\* CodebaseIndex._remove_file_from_index
RemoveFileFromIndex(index, rel_path) ==
    LET kept(t) == SelectSeq(index[t], LAMBDA loc : loc.file # rel_path)
    IN  [t \in {u \in DOMAIN index : kept(u) # << >>} |-> kept(t)]

\* the part of the state that index_file works on
IndexState == [inverted_index |-> inverted_index, files |-> files, last_indexed |-> last_indexed]

\* CodebaseIndex.index_file over a state: the state after it and what it returns
IndexFile(st, path) ==
    IF ~disk[path].exists
    THEN [st |-> st, indexed |-> FALSE]
    ELSE LET content == disk[path].content
             mtime == disk[path].mtime
             content_hash == ContentHash(content)
             known == path \in DOMAIN st.files
         IN  IF known /\ st.files[path].content_hash = content_hash
             THEN [st |-> st, indexed |-> FALSE]
             ELSE LET cleared == IF known THEN RemoveFileFromIndex(st.inverted_index, path)
                                 ELSE st.inverted_index
                  IN  [st |-> [inverted_index |->
                                   AppendTokens(cleared, Tokenize(content), path, mtime),
                               files |-> Put(st.files, path,
                                   [path |-> path, mtime |-> mtime, size |-> ContentSize(content),
                                    language |-> "python", content_hash |-> content_hash]),
                               last_indexed |-> NowSeconds],
                       indexed |-> TRUE]

\* CodebaseIndex.record_change
RecordChange(path, change_type) ==
    changes' = Append(changes, [file |-> path, timestamp |-> NowSeconds,
                                change_type |-> change_type])

\* the order in which rglob yields the files
ScanOrder == <<"a.py", "b.py">>

\* CodebaseIndex.full_scan
RECURSIVE FullScan(_, _)
FullScan(st, paths) ==
    IF paths = << >> THEN st ELSE FullScan(IndexFile(st, Head(paths)).st, Tail(paths))

\* IndexManager.init_local: full_scan, then _start_watcher
InitLocal ==
    /\ ~watching
    /\ LET st == FullScan(IndexState, ScanOrder)
       IN  /\ inverted_index' = st.inverted_index
           /\ files' = st.files
           /\ last_indexed' = st.last_indexed
    /\ watching' = TRUE
    /\ UNCHANGED <<disk, events, changes, tag_count, tag_meta, enriched>>

\* the watcher queues an event for every change it is running for
Notify(kind, path) ==
    events' = IF watching THEN Append(events, [kind |-> kind, path |-> path]) ELSE events

\* a file under the root is written
WriteFile(path, content) ==
    /\ disk' = [disk EXCEPT ![path] = [exists |-> TRUE, content |-> content, mtime |-> NowSeconds]]
    /\ Notify(IF disk[path].exists THEN "modified" ELSE "created", path)
    /\ UNCHANGED <<watching, inverted_index, files, changes, last_indexed,
                   tag_count, tag_meta, enriched>>

\* a file under the root is removed
DeleteFile(path) ==
    /\ disk[path].exists
    /\ disk' = [disk EXCEPT ![path] = NoFile]
    /\ Notify("deleted", path)
    /\ UNCHANGED <<watching, inverted_index, files, changes, last_indexed,
                   tag_count, tag_meta, enriched>>

\* IndexerHandler.on_modified and on_created
OnIndexEvent(path, change_type) ==
    LET r == IndexFile(IndexState, path)
    IN  /\ inverted_index' = r.st.inverted_index
        /\ files' = r.st.files
        /\ last_indexed' = r.st.last_indexed
        /\ IF r.indexed THEN RecordChange(path, change_type) ELSE UNCHANGED changes

\* IndexerHandler.on_deleted
OnDeleted(path) ==
    IF path \in DOMAIN files
    THEN /\ inverted_index' = RemoveFileFromIndex(inverted_index, path)
         /\ files' = [f \in (DOMAIN files) \ {path} |-> files[f]]
         /\ RecordChange(path, "deleted")
         /\ UNCHANGED last_indexed
    ELSE UNCHANGED <<inverted_index, files, changes, last_indexed>>

\* the watcher thread delivers its oldest event
Deliver ==
    /\ events # << >>
    /\ LET e == Head(events)
       IN  CASE e.kind = "modified" -> OnIndexEvent(e.path, "modified")
             [] e.kind = "created" -> OnIndexEvent(e.path, "added")
             [] e.kind = "deleted" -> OnDeleted(e.path)
    /\ events' = Tail(events)
    /\ UNCHANGED <<disk, watching, tag_count, tag_meta, enriched>>

DEFAULT_PROJECT_KEY == "default"

\* the symbols of a body of POST /outline/enriched
SymbolLists ==
    { <<[name |-> "Bar", kind |-> "class", line |-> 1, end_line |-> 1, tags |-> <<"#auth">>]>>,
      <<[name |-> "foo", kind |-> "function", line |-> 1, end_line |-> 2,
         tags |-> <<"#auth", "#api">>]>> }

\* for sym in symbols: for tag in tags, as one list
RECURSIVE SymbolTags(_)
SymbolTags(symbols) ==
    IF symbols = << >> THEN << >>
    ELSE [i \in 1..Len(Head(symbols).tags) |-> [sym |-> Head(symbols), tag |-> Head(symbols).tags[i]]]
         \o SymbolTags(Tail(symbols))

TagLocation(file_path, sym, mtime) ==
    [file |-> file_path, line |-> sym.line, col |-> 0, symbol_type |-> "tag", mtime |-> mtime,
     symbol |-> sym.name, symbol_kind |-> sym.kind, end_line |-> sym.end_line]

TagKey(file_path, sym, tag) == <<DEFAULT_PROJECT_KEY, file_path, sym.name, tag>>

\* the loop of mark_enriched with Redis: the state after it and the two counters
RECURSIVE EnrichCounted(_, _, _, _)
EnrichCounted(st, pairs, file_path, mtime) ==
    IF pairs = << >> THEN st
    ELSE LET sym == Head(pairs).sym
             tag == Head(pairs).tag
             key == TagKey(file_path, sym, tag)
             new_count == (IF key \in DOMAIN st.tag_count THEN st.tag_count[key] ELSE 0) + 1
             first == new_count = 1
         IN  EnrichCounted(
                 [inverted_index |-> IF first
                                     THEN AppendLocation(st.inverted_index, tag,
                                                         TagLocation(file_path, sym, mtime))
                                     ELSE st.inverted_index,
                  tag_count |-> Put(st.tag_count, key, new_count),
                  tag_meta |-> Put(st.tag_meta, key,
                                   [kind |-> sym.kind, line |-> sym.line,
                                    end_line |-> sym.end_line, updated |-> mtime]),
                  tags_indexed |-> st.tags_indexed + (IF first THEN 1 ELSE 0),
                  tags_incremented |-> st.tags_incremented + (IF first THEN 0 ELSE 1)],
                 Tail(pairs), file_path, mtime)

\* the fallback loop of mark_enriched: every tag is appended
RECURSIVE EnrichUncounted(_, _, _, _)
EnrichUncounted(index, pairs, file_path, mtime) ==
    IF pairs = << >> THEN index
    ELSE EnrichUncounted(
             AppendLocation(index, Head(pairs).tag, TagLocation(file_path, Head(pairs).sym, mtime)),
             Tail(pairs), file_path, mtime)

\* mark_enriched; redis_up = FALSE is a Redis that refuses the first command
MarkEnriched(file_path, symbols, redis_up) ==
    LET mtime == NowSeconds
        pairs == SymbolTags(symbols)
        st == EnrichCounted([inverted_index |-> inverted_index, tag_count |-> tag_count,
                             tag_meta |-> tag_meta, tags_indexed |-> 0, tags_incremented |-> 0],
                            pairs, file_path, mtime)
    IN  /\ watching
        /\ IF redis_up
           THEN /\ inverted_index' = st.inverted_index
                /\ tag_count' = st.tag_count
                /\ tag_meta' = st.tag_meta
                /\ enriched' = Put(enriched, <<DEFAULT_PROJECT_KEY, file_path>>,
                                   [enriched_at |-> mtime,
                                    tags_count |-> st.tags_indexed + st.tags_incremented])
           ELSE /\ inverted_index' = EnrichUncounted(inverted_index, pairs, file_path, mtime)
                /\ UNCHANGED <<tag_count, tag_meta, enriched>>
        /\ UNCHANGED <<disk, watching, events, files, changes, last_indexed>>

IndexFrame ==
    UNCHANGED <<evalVars, raceVars, serviceVars, tunerVars, scoreVars, intentVars, batchVars, trackerVars>>

IndexTick ==
    /\ StepWithin("tick", MaxIndexOps)
    /\ Tick(Ms(1))
    /\ UNCHANGED indexVars
    /\ IndexFrame

IndexWrite ==
    \E path \in IndexedFiles, content \in Contents :
        /\ StepRequest("write", [s |-> "", f |-> path, p |-> NoProject], MaxIndexOps)
        /\ WriteFile(path, content)
        /\ UNCHANGED now
        /\ IndexFrame

IndexDelete ==
    \E path \in IndexedFiles :
        /\ StepRequest("delete", [s |-> "", f |-> path, p |-> NoProject], MaxIndexOps)
        /\ DeleteFile(path)
        /\ UNCHANGED now
        /\ IndexFrame

IndexInitLocal ==
    /\ StepWithin("scan", MaxIndexOps)
    /\ InitLocal
    /\ UNCHANGED now
    /\ IndexFrame

IndexDeliver ==
    /\ events # << >>
    /\ StepRequest(Head(events).kind, [s |-> "", f |-> Head(events).path, p |-> NoProject],
                   MaxIndexOps)
    /\ Deliver
    /\ UNCHANGED now
    /\ IndexFrame

IndexEnrich ==
    \E file_path \in IndexedFiles, symbols \in SymbolLists, redis_up \in BOOLEAN :
        /\ StepRequest("enrich", [s |-> "", f |-> file_path, p |-> NoProject], MaxIndexOps)
        /\ MarkEnriched(file_path, symbols, redis_up)
        /\ UNCHANGED now
        /\ IndexFrame

NextIndex ==
    IndexTick \/ IndexWrite \/ IndexDelete \/ IndexInitLocal \/ IndexDeliver \/ IndexEnrich

SpecIndex == Init /\ [][NextIndex]_vars

(***************************************************************************)
(* The batch importer of session logs (SessionLogParser) and the           *)
(* prediction from the stored transition counts (predict_next).  Scores    *)
(* and probabilities are fractions [num, den].                             *)
(***************************************************************************)
PROJECT_ROOT == "/home/corey/aOa"
RootedPath == "/home/corey/aOa/a.py"

\* the tool events an agent appends to its session log
ToolEvents ==
    { [tool |-> "Read", file_path |-> RootedPath],
      [tool |-> "Read", file_path |-> "a.py"],
      [tool |-> "Read", file_path |-> "b.py"],
      [tool |-> "Read", file_path |-> ""],
      [tool |-> "Edit", file_path |-> "b.py"] }

\* a variant that takes the path of every tool event
ExtractFileReads_AnyTool(evs) == [i \in 1..Len(evs) |-> evs[i].file_path]

\* SessionLogParser.extract_file_reads
RECURSIVE ExtractFileReads(_)
ExtractFileReads(evs) ==
    IF evs = << >> THEN << >>
    ELSE (IF Head(evs).tool = "Read" /\ Head(evs).file_path # ""
          THEN <<Head(evs).file_path>> ELSE << >>) \o ExtractFileReads(Tail(evs))

\* SessionLogParser.normalize_path: only RootedPath starts with the project root
NormalizePath(file_path) == IF file_path = RootedPath THEN "a.py" ELSE file_path

\* the normalized reads of a session log
ReadsOf(evs) ==
    LET reads == ExtractFileReads(evs)
    IN  [i \in 1..Len(reads) |-> NormalizePath(reads[i])]

\* transitions[from_file][to_file] += 1
Increment(matrix, from_file, to_file) ==
    LET row == IF from_file \in DOMAIN matrix THEN matrix[from_file] ELSE EmptyMap
    IN  Put(matrix, from_file,
            Put(row, to_file, (IF to_file \in DOMAIN row THEN row[to_file] ELSE 0) + 1))

\* the inner loop of build_transition_matrix over one session's reads
RECURSIVE CountReads(_, _)
CountReads(matrix, reads) ==
    IF Len(reads) < 2 THEN matrix
    ELSE CountReads(IF reads[1] # reads[2] THEN Increment(matrix, reads[1], reads[2]) ELSE matrix,
                    Tail(reads))

\* sorted(self.base_path.glob('agent-*.jsonl'))
ListSessions == <<"agent-1.jsonl", "agent-2.jsonl">>

\* the reads of the listed sessions, one after the other
RECURSIVE JoinedReads(_)
JoinedReads(session_list) ==
    IF session_list = << >> THEN << >>
    ELSE ReadsOf(session_files[Head(session_list)]) \o JoinedReads(Tail(session_list))

\* a variant that counts over the reads of all sessions joined together
BuildOver_Joined(matrix, session_list) == CountReads(matrix, JoinedReads(session_list))

\* the outer loop of build_transition_matrix
RECURSIVE BuildOver(_, _)
BuildOver(matrix, session_list) ==
    IF session_list = << >> THEN matrix
    ELSE BuildOver(CountReads(matrix, ReadsOf(session_files[Head(session_list)])),
                   Tail(session_list))

\* SessionLogParser.build_transition_matrix
BuildTransitionMatrix == BuildOver(EmptyMap, ListSessions)

\* sync_to_redis adding the counts to the stored scores instead of setting them (variant)
SyncToRedis_Added ==
    LET counted == BuildTransitionMatrix
        merged(from_file) ==
            LET old == IF from_file \in DOMAIN transition THEN transition[from_file] ELSE EmptyMap
                new == IF from_file \in DOMAIN counted THEN counted[from_file] ELSE EmptyMap
            IN  [to_file \in (DOMAIN old) \cup (DOMAIN new) |->
                    (IF to_file \in DOMAIN new THEN new[to_file] ELSE 0)
                    + (IF to_file \in DOMAIN old THEN old[to_file] ELSE 0)]
    IN  transition' = [from_file \in (DOMAIN transition) \cup (DOMAIN counted) |->
                          merged(from_file)]

\* SessionLogParser.sync_to_redis: zadd(key, count, to_file) for every counted pair
SyncToRedis ==
    LET counted == BuildTransitionMatrix
        merged(from_file) ==
            LET old == IF from_file \in DOMAIN transition THEN transition[from_file] ELSE EmptyMap
                new == IF from_file \in DOMAIN counted THEN counted[from_file] ELSE EmptyMap
            IN  [to_file \in (DOMAIN old) \cup (DOMAIN new) |->
                    IF to_file \in DOMAIN new THEN new[to_file] ELSE old[to_file]]
    IN  transition' = [from_file \in (DOMAIN transition) \cup (DOMAIN counted) |->
                          merged(from_file)]

\* a fraction is larger than another
Greater(a, b) == a.num * b.den > b.num * a.den

\* ZREVRANGE key start stop WITHSCORES over a sorted set member -> fraction:
\* highest score first, equal scores in reverse order of the members
ZRevRange(zset, start, stop) ==
    LET members == DOMAIN zset
        before(m, n) == \/ Greater(zset[m], zset[n])
                        \/ ~Greater(zset[n], zset[m]) /\ FileRank[m] > FileRank[n]
        position(m) == Cardinality({n \in members : before(n, m)}) + 1
        whole == [i \in 1..Cardinality(members) |->
                     LET m == CHOOSE n \in members : position(n) = i
                     IN  [member |-> m, score |-> zset[m]]]
        last == IF stop < 0 THEN Len(whole) + stop ELSE Min(stop, Len(whole) - 1)
    IN  SubSeq(whole, start + 1, last + 1)

RECURSIVE SumScores(_)
SumScores(results) ==
    IF results = << >> THEN 0 ELSE Head(results).score + SumScores(Tail(results))

\* the sorted set of a source file with its counts as scores
CountsOf(current_file) ==
    IF current_file \in DOMAIN transition
    THEN [m \in DOMAIN transition[current_file] |->
              [num |-> transition[current_file][m], den |-> 1]]
    ELSE EmptyMap

\* SessionLogParser.predict_next
PredictNext(current_file, limit) ==
    LET results == ZRevRange(CountsOf(current_file), 0, limit - 1)
        counts == [i \in 1..Len(results) |->
                      [member |-> results[i].member, score |-> results[i].score.num]]
        total == SumScores(counts)
    IN  IF results = << >> \/ total = 0 THEN << >>
        ELSE [i \in 1..Len(counts) |->
                 [file_path |-> counts[i].member,
                  probability |-> [num |-> counts[i].score, den |-> total]]]

BatchFrame ==
    UNCHANGED <<now, evalVars, raceVars, serviceVars, tunerVars, scoreVars, intentVars, indexVars, trackerVars>>

\* an agent appends a tool event to its session log
BatchAppend ==
    \E sf \in SessionFiles, ev \in ToolEvents :
        /\ StepWithin("append", MaxBatchOps)
        /\ session_files' = [session_files EXCEPT ![sf] = Append(@, ev)]
        /\ UNCHANGED transition
        /\ BatchFrame

\* POST /transitions/sync
BatchSync ==
    /\ StepWithin("sync", MaxBatchOps)
    /\ SyncToRedis
    /\ UNCHANGED session_files
    /\ BatchFrame

NextBatch == BatchAppend \/ BatchSync

SpecBatch == Init /\ [][NextBatch]_vars

(***************************************************************************)
(* The live sequence tracker (SequenceTracker) of one project.  Its keys   *)
(* live for one day (sequences) and seven days (timings, probabilities);   *)
(* the clock of the model never advances that far.                         *)
(***************************************************************************)
TIME_WINDOW_SECONDS == 300
MIN_TRANSITION_COUNT == 2
MAX_TRANSITIONS_PER_FILE == 20
RECENT_STOP == 9
SEQUENCE_TRIM_STOP == 99
TIMING_TRIM_STOP == 99

\* a tool target that is not a file
CommandPath == "cmd:ls"
AccessPaths == Files \cup {CommandPath}

\* not file_path or file_path.startswith('pattern:') or file_path.startswith('cmd:')
Ignored(file_path) == file_path = "" \/ file_path = CommandPath

\* SequenceTracker._get_recent_accesses: the 10 newest accesses of the session
\* that are no older than the time window
RecentAccesses(session_id) ==
    SelectSeq(Take(sequences[session_id], RECENT_STOP + 1),
              LAMBDA access : now - access.timestamp <= Ms(TIME_WINDOW_SECONDS))

\* the probabilities that _update_probabilities stores for the counts of a source
Probabilities(counts) ==
    LET total == LET RECURSIVE Sum(_)
                     Sum(ms) == IF ms = {} THEN 0
                                ELSE LET m == CHOOSE x \in ms : TRUE
                                     IN  counts[m] + Sum(ms \ {m})
                 IN  Sum(DOMAIN counts)
        kept == {m \in DOMAIN counts : counts[m] >= MIN_TRANSITION_COUNT}
        scored == [m \in kept |-> [num |-> counts[m], den |-> total]]
        top == ZRevRange(scored, 0, MAX_TRANSITIONS_PER_FILE - 1)
    IN  [m \in {top[i].member : i \in 1..Len(top)} |-> scored[m]]

\* the part of the state that _record_transition works on
TrackerState ==
    [transition_counts |-> transition_counts, transition_timing |-> transition_timing,
     transitions |-> transitions]

\* SequenceTracker._record_transition with _update_probabilities
RecordTransition(st, from_file, to_file, time_delta) ==
    IF from_file = to_file THEN st
    ELSE LET counts == Increment(st.transition_counts, from_file, to_file)
             key == <<from_file, to_file>>
             timings == IF key \in DOMAIN st.transition_timing
                        THEN st.transition_timing[key] ELSE << >>
         IN  [transition_counts |-> counts,
              transition_timing |-> Put(st.transition_timing, key,
                                        Take(<<time_delta>> \o timings, TIMING_TRIM_STOP + 1)),
              transitions |-> Put(st.transitions, from_file, Probabilities(counts[from_file]))]

\* for prev_access in recent: self._record_transition(...)
RECURSIVE RecordRecent(_, _, _)
RecordRecent(st, recent, file_path) ==
    IF recent = << >> THEN st
    ELSE RecordRecent(RecordTransition(st, Head(recent).file_path, file_path,
                                       now - Head(recent).timestamp),
                      Tail(recent), file_path)

\* SequenceTracker.record_access
RecordAccessOf(file_path, session_id) ==
    IF Ignored(file_path)
    THEN UNCHANGED <<sequences, transition_counts, transition_timing, transitions>>
    ELSE LET st == RecordRecent(TrackerState, RecentAccesses(session_id), file_path)
         IN  /\ transition_counts' = st.transition_counts
             /\ transition_timing' = st.transition_timing
             /\ transitions' = st.transitions
             /\ sequences' = [sequences EXCEPT ![session_id] =
                    Take(<<[file_path |-> file_path, timestamp |-> now]>> \o @,
                         SEQUENCE_TRIM_STOP + 1)]

\* the count of the hash of a source file, 0 if absent
TrackedCount(from_file, to_file) ==
    IF from_file \in DOMAIN transition_counts /\ to_file \in DOMAIN transition_counts[from_file]
    THEN transition_counts[from_file][to_file] ELSE 0

\* SequenceTracker._get_avg_time_delta, as the sum and the number of the timings
AvgTimeDelta(from_file, to_file) ==
    LET key == <<from_file, to_file>>
        timings == IF key \in DOMAIN transition_timing THEN transition_timing[key] ELSE << >>
        RECURSIVE Sum(_)
        Sum(seq) == IF seq = << >> THEN 0 ELSE Head(seq) + Sum(Tail(seq))
    IN  IF timings = << >> THEN [num |-> 0, den |-> 1]
        ELSE [num |-> Sum(timings), den |-> Len(timings)]

\* SequenceTracker.predict_next_files
PredictNextFiles(current_file, limit) ==
    IF current_file = "" \/ current_file \notin DOMAIN transitions THEN << >>
    ELSE LET results == ZRevRange(transitions[current_file], 0, limit - 1)
         IN  [i \in 1..Len(results) |->
                 [from_file |-> current_file,
                  to_file |-> results[i].member,
                  probability |-> results[i].score,
                  count |-> TrackedCount(current_file, results[i].member),
                  avg_time_delta |-> AvgTimeDelta(current_file, results[i].member)]]

TrackerFrameOthers == UNCHANGED <<evalVars, raceVars, serviceVars, tunerVars, scoreVars, intentVars, indexVars>>

TrackerFrame == TrackerFrameOthers /\ UNCHANGED batchVars

TrackerTickSteps == {Ms(1), Ms(TIME_WINDOW_SECONDS) + 1}

TrackerTick ==
    \E d \in TrackerTickSteps :
        /\ StepWithin("tick", MaxTrackerOps)
        /\ Tick(d)
        /\ UNCHANGED trackerVars
        /\ TrackerFrame

TrackerAccess ==
    \E file_path \in AccessPaths, session_id \in Sessions :
        /\ StepRequest("access", [s |-> session_id, f |-> file_path, p |-> NoProject],
                       MaxTrackerOps)
        /\ RecordAccessOf(file_path, session_id)
        /\ UNCHANGED now
        /\ TrackerFrame

NextTracker == TrackerTick \/ TrackerAccess

SpecTracker == Init /\ [][NextTracker]_vars

(***************************************************************************)
(* The ingestion of one known session, by the batch import and by the      *)
(* tracker, which is handed the reads of the session one by one.           *)
(***************************************************************************)
SampleSession == "s1"

\* the next read of the sample session that the tracker has not seen yet
SampleReplay ==
    /\ Len(sequences[SampleSession]) < Len(SampleReads)
    /\ LET file_path == SampleReads[Len(sequences[SampleSession]) + 1]
       IN  /\ StepRequest("access", [s |-> SampleSession, f |-> file_path, p |-> NoProject],
                          MaxSampleOps)
           /\ RecordAccessOf(file_path, SampleSession)
    /\ UNCHANGED <<now, batchVars>>
    /\ TrackerFrameOthers

SampleSync ==
    /\ StepWithin("sync", MaxSampleOps)
    /\ SyncToRedis
    /\ UNCHANGED <<now, session_files, trackerVars>>
    /\ TrackerFrameOthers

SampleTick ==
    \E d \in TrackerTickSteps :
        /\ StepWithin("tick", MaxSampleOps)
        /\ Tick(d)
        /\ UNCHANGED <<batchVars, trackerVars>>
        /\ TrackerFrameOthers

NextSample == SampleReplay \/ SampleSync \/ SampleTick

SpecSample == InitSample /\ [][NextSample]_vars

(***************************************************************************)
(* The scorer called directly: Scorer.record_access(file_path, tags,       *)
(* timestamp).  The tags are a list; the timestamp is absent (the empty    *)
(* tuple) or an integer of seconds.                                        *)
(***************************************************************************)
StartSeconds == StartTime \div 1000

\* the tag lists of the callers: none, one, two, and one tag given twice
TagLists == {<< >>, <<"api">>, <<"api", "db">>, <<"api", "api">>}

\* timestamp: absent, the epoch, an hour before the start
AccessTimestamps == {<< >>, <<0>>, <<StartSeconds - RECENCY_HALF_LIFE>>}

\* ts = timestamp or int(time.time())
EffectiveTimestamp(timestamp) ==
    IF timestamp = << >> \/ timestamp[1] = 0 THEN NowSeconds ELSE timestamp[1]

\* for tag in tags: zincrby(tag_key, 1, file_path)
RECURSIVE IncrTags(_, _, _)
IncrTags(affinity, tags, file_path) ==
    IF tags = << >> THEN affinity
    ELSE IncrTags([affinity EXCEPT ![Head(tags)] = ZIncrBy(@, file_path)], Tail(tags), file_path)

\* Scorer.record_access
RecordAccessAt(file_path, tags, timestamp) ==
    LET ts == EffectiveTimestamp(timestamp)
    IN  /\ recency' = Put(recency, file_path, ts)
        /\ frequency' = ZIncrBy(frequency, file_path)
        /\ first_seen' = IF file_path \in DOMAIN first_seen THEN first_seen
                         ELSE Put(first_seen, file_path, ts)
        /\ tagAffinity' = IncrTags(tagAffinity, tags, file_path)

AccessFrame == UNCHANGED <<evalVars, raceVars, tunerVars, recordedUnder, response, extraVars>>

AccessTickSteps == {Ms(1), Ms(RECENCY_HALF_LIFE)}

AccessTick ==
    \E d \in AccessTickSteps :
        /\ StepWithin("tick", MaxAccessOps)
        /\ Tick(d)
        /\ UNCHANGED <<recency, frequency, tagAffinity, first_seen>>
        /\ AccessFrame

AccessRecord ==
    \E f \in Files, tags \in TagLists, timestamp \in AccessTimestamps :
        /\ StepRequest("access", [s |-> "", f |-> f, p |-> NoProject, tags |-> tags,
                                  timestamp |-> timestamp], MaxAccessOps)
        /\ RecordAccessAt(f, tags, timestamp)
        /\ UNCHANGED now
        /\ AccessFrame

NextAccess == AccessTick \/ AccessRecord

SpecAccess == Init /\ [][NextAccess]_vars

(***************************************************************************)
(* GET /predict with a trigger file (predict_files): the ranking of the    *)
(* scorer combined with the stored transition counts.  A prediction is a   *)
(* record [path, confidence], the confidence in thousandths.               *)
(***************************************************************************)
\* predict_next(..., limit=10)
TRANSITION_LIMIT == 10
\* transition_boost = 0.3, trans_prob >= 0.1 and trans_prob * 0.8, in tenths
TRANSITION_BOOST == 3
MIN_TRANSITION_PROB == 1
TRANSITION_SCALE == 8

\* os.path.join(host_root, f)
HostPath == [f \in Files |->
                IF f = "a.py" THEN RootedPath
                ELSE IF f = "b.py" THEN "/home/corey/aOa/b.py" ELSE "/home/corey/aOa/c.py"]

\* the file parameter of the request: absent, a stored name, a path under host_root
TriggerFiles == {"", "c.py", RootedPath}

\* trans_results: predict_next of the parameter as it is, else of the
\* parameter with host_root removed
TransResults(file_param) ==
    LET direct == PredictNext(file_param, TRANSITION_LIMIT)
    IN  IF direct # << >> THEN direct
        ELSE IF file_param = RootedPath THEN PredictNext("a.py", TRANSITION_LIMIT)
        ELSE << >>

\* transition_preds in the order of its keys: every predicted file and, after
\* it, its path under host_root
TransitionPreds(file_param) ==
    LET trans == IF file_param # "" THEN TransResults(file_param) ELSE << >>
    IN  [i \in 1..(2 * Len(trans)) |->
            LET r == trans[(i + 1) \div 2]
            IN  [path |-> IF i % 2 = 1 THEN r.file_path ELSE HostPath[r.file_path],
                 prob |-> r.probability]]

\* sorted(transition_preds.items(), key=prob, reverse=True): stable
SortByProbability(preds) ==
    LET before(i, j) == \/ Greater(preds[i].prob, preds[j].prob)
                        \/ ~Greater(preds[j].prob, preds[i].prob) /\ i < j
        position(i) == Cardinality({j \in 1..Len(preds) : before(j, i)}) + 1
    IN  [k \in 1..Len(preds) |-> preds[CHOOSE i \in 1..Len(preds) : position(i) = k]]

\* the probability of a path in transition_preds, zero if it is not a key
ProbOf(preds, path) ==
    IF \E i \in 1..Len(preds) : preds[i].path = path
    THEN (CHOOSE r \in Range(preds) : r.path = path).prob
    ELSE [num |-> 0, den |-> 1]

\* round(min(1.0, confidence + trans_prob * transition_boost), 3)
Boosted(confidence, prob) ==
    Round3(Min(FIX, confidence + (TRANSITION_BOOST * FIX * prob.num) \div (10 * prob.den)))

\* round(trans_prob * 0.8, 3)
Scaled(prob) == Round3((TRANSITION_SCALE * FIX * prob.num) \div (10 * prob.den))

\* trans_prob >= 0.1
Probable(prob) == 10 * prob.num >= MIN_TRANSITION_PROB * prob.den

\* the first loop of predict_files: it stops once limit files are taken
ScorerEntries(results, tags, preds, limit) ==
    LET taken == Take(results, limit)
    IN  [i \in 1..Len(taken) |->
            [path |-> taken[i],
             confidence |-> Boosted(Confidence(taken[i], tags), ProbOf(preds, taken[i]))]]

\* the second loop: transition predictions not yet seen, while there is room
TransitionEntries(preds, seen, room) ==
    LET keep(r) == r.path \notin seen /\ Probable(r.prob)
        added == Take(SelectSeq(SortByProbability(preds), keep), room)
    IN  [i \in 1..Len(added) |-> [path |-> added[i].path, confidence |-> Scaled(added[i].prob)]]

\* files after both loops
Listed(scored, preds, limit) ==
    IF preds # << >> /\ Len(scored) < limit
    THEN scored \o TransitionEntries(preds, {scored[i].path : i \in 1..Len(scored)},
                                     limit - Len(scored))
    ELSE scored

\* files.sort(key=confidence, reverse=True): stable
SortEntries(entries) ==
    LET before(i, j) == \/ entries[i].confidence > entries[j].confidence
                        \/ entries[i].confidence = entries[j].confidence /\ i < j
        position(i) == Cardinality({j \in 1..Len(entries) : before(j, i)}) + 1
    IN  [k \in 1..Len(entries) |-> entries[CHOOSE i \in 1..Len(entries) : position(i) = k]]

\* the one element of a set of one element
Only(S) == CHOOSE x \in S : TRUE

\* predict_files: the predictions of the response.  Each local of the handler
\* is computed once and bound to its value.
PredictTriggered(tags, limit, file_param) ==
    Only({Only({Only({Take(SortEntries(listed), limit) :
                          listed \in {Listed(scored, preds, limit)}}) :
                    scored \in {ScorerEntries(results, tags, preds, limit)}}) :
              results \in {GetRankedFiles(tags, limit * 2)},
              preds \in {TransitionPreds(file_param)}})

\* the transition counts of the sample session, as a sync stores them
SampleStore == CountReads(EmptyMap, ReadsOf(SampleEvents))

\* the session log of the sample is on disk; its counts are synced or not yet
InitPredict ==
    /\ InitClock /\ InitEval /\ InitRace /\ InitTuner /\ InitScore
    /\ InitIntent /\ InitIndex /\ InitTracker /\ InitService
    /\ session_files = [sf \in SessionFiles |->
                            IF sf = "agent-1.jsonl" THEN SampleEvents ELSE << >>]
    /\ transition \in {EmptyMap, SampleStore}

PredictFrame ==
    UNCHANGED <<raceVars, serviceVars, tunerVars, recordedUnder, intentVars, indexVars, trackerVars,
                session_files>>

PredictTagSets == {{}, {"api"}}
PredictRecordFiles == {"a.py", "b.py"}

PredictTick ==
    /\ StepWithin("tick", MaxPredictOps)
    /\ Tick(Ms(RECENCY_HALF_LIFE))
    /\ UNCHANGED <<recency, frequency, tagAffinity, first_seen, response, transition, evalVars>>
    /\ PredictFrame

\* POST /rank/record
PredictRecord ==
    \E f \in PredictRecordFiles, tags \in PredictTagSets :
        /\ StepWithin("record", MaxPredictOps)
        /\ RecordAccess(f, tags)
        /\ UNCHANGED <<now, response, transition, evalVars>>
        /\ PredictFrame

\* POST /transitions/sync
PredictSync ==
    /\ StepWithin("sync", MaxPredictOps)
    /\ SyncToRedis
    /\ UNCHANGED <<now, recency, frequency, tagAffinity, first_seen, response, evalVars>>
    /\ PredictFrame

\* GET /predict?tags=..&limit=..&file=..
PredictQuery ==
    \E tags \in PredictTagSets, limit \in Limits, file_param \in TriggerFiles :
        /\ StepRequest("predict", [s |-> "", f |-> file_param, p |-> NoProject,
                                   tags |-> tags, limit |-> limit], MaxPredictOps)
        /\ response' = [kind |-> "predict", project |-> NoProject,
                        files |-> PredictTriggered(tags, limit, file_param)]
        /\ UNCHANGED <<now, recency, frequency, tagAffinity, first_seen, transition, evalVars>>
        /\ PredictFrame

\* the paths of a response: [f.get('path', '') for f in files]
PathsOf(entries) == [i \in 1..Len(entries) |-> entries[i].path]

\* the UserPromptSubmit hook (predict-context.py) after its GET /predict
\* returned files: a separate POST /predict/log of their paths
PredictHookLog ==
    \E s \in Sessions :
        /\ response.kind = "predict" /\ response.files # << >>
        /\ StepWithin("log", MaxPredictOps)
        /\ LogPrediction(s, PathsOf(response.files))
        /\ UNCHANGED <<now, recency, frequency, tagAffinity, first_seen, transition, response>>
        /\ PredictFrame

NextPredict == PredictTick \/ PredictRecord \/ PredictSync \/ PredictQuery \/ PredictHookLog

SpecPredict == InitPredict /\ [][NextPredict]_vars

(***************************************************************************)
(* The tuner's reports: GET /tuner/best and GET /tuner/stats.              *)
(***************************************************************************)
\* mean = alpha / (alpha + beta) of one arm, as a fraction
ArmMean(arm) ==
    [num |-> GetArmStats(arm)[1], den |-> GetArmStats(arm)[1] + GetArmStats(arm)[2]]

\* get_best_weights, one pass of its loop: if mean > best_mean, the arm is the best so far
BetterArm(best, idx) ==
    IF Greater(ArmMean(idx), best.mean) THEN [arm_idx |-> idx, mean |-> ArmMean(idx)]
    ELSE best

RECURSIVE BestFrom(_, _)
BestFrom(idx, best) ==
    IF idx = NUM_ARMS THEN best
    ELSE Only({BestFrom(idx + 1, b) : b \in {BetterArm(best, idx)}})

\* get_best_weights: best_arm = 0, best_mean = 0.0, then the loop over the arms
GetBestWeights == BestFrom(0, [arm_idx |-> 0, mean |-> [num |-> 0, den |-> 1]])

\* round(mean, 4), in ten-thousandths; a mean halfway between two of them is
\* a binary fraction in the states explored, which round() takes to the even one
Round4(mean) ==
    LET q == (mean.num * 10000) \div mean.den
        r == (mean.num * 10000) % mean.den
    IN IF 2 * r > mean.den \/ (2 * r = mean.den /\ q % 2 = 1) THEN q + 1 ELSE q

\* get_stats: the entry of one arm
StatsEntry(idx) ==
    [arm_idx |-> idx,
     alpha |-> GetArmStats(idx)[1],
     beta |-> GetArmStats(idx)[2],
     mean |-> Round4(ArmMean(idx)),
     samples |-> GetArmStats(idx)[1] + GetArmStats(idx)[2] - 2]

\* get_stats without its final sort (variant)
GetStats_Unsorted == [i \in 1..NUM_ARMS |-> StatsEntry(i - 1)]

\* sorted(stats, key=mean, reverse=True): the sort is stable, entries of equal
\* mean stay in the order of their arms
StatsPosition(idx) ==
    1 + Cardinality({j \in Arms : \/ StatsEntry(j).mean > StatsEntry(idx).mean
                                  \/ /\ StatsEntry(j).mean = StatsEntry(idx).mean
                                     /\ j < idx})

\* get_stats
GetStats == [i \in 1..NUM_ARMS |-> StatsEntry(CHOOSE idx \in Arms : StatsPosition(idx) = i)]

TunerFrame == UNCHANGED <<now, evalVars, raceVars, scoreVars, extraVars>>

FeedbackRequest(arm, hit) ==
    [s |-> "", f |-> "", p |-> NoProject, arm |-> arm, hit |-> hit]

\* POST /tuner/feedback from any caller, for any arm
ArmsFeedback ==
    \E b \in Batches, arm \in Arms, hit \in BOOLEAN :
        /\ StepRequest("feedback", FeedbackRequest(arm, hit), MaxArmOps)
        /\ TunerFeedback(b, arm, hit)
        /\ TunerFrame

\* POST /tuner/reset
ArmsReset ==
    /\ StepWithin("reset", MaxArmOps)
    /\ TunerReset
    /\ TunerFrame

NextArms == ArmsFeedback \/ ArmsReset

SpecArms == Init /\ [][NextArms]_vars

\* The synthetic feedback of the convergence scenario: the arms in turn, arm 2
\* hit 4 times in 5 and every other arm 2 times in 5.
SyntheticArm(n) == n % NUM_ARMS
SyntheticHit(n) ==
    IF SyntheticArm(n) = 2 THEN (n \div NUM_ARMS) % 5 # 4
    ELSE (n \div NUM_ARMS) % 5 < 2

ConvergeFeedback ==
    /\ StepRequest("feedback", FeedbackRequest(SyntheticArm(nOps), SyntheticHit(nOps)),
                   SyntheticFeedbacks)
    /\ TunerFeedback("b1", SyntheticArm(nOps), SyntheticHit(nOps))
    /\ TunerFrame

NextConverge == ConvergeFeedback

SpecConverge == Init /\ [][NextConverge]_vars

(***************************************************************************)
(* The Hit@5 scenario: a batch is logged and hit, a second batch is logged *)
(* and, once it has aged, finalized.                                       *)
(***************************************************************************)
\* calculate_rolling_hit_rate: round(hits / evaluated, 4) if evaluated > 0 else 0.0,
\* in ten-thousandths
RollingHitAt5 ==
    IF RollingEvaluated > 0
    THEN Round4([num |-> RollingHits, den |-> RollingEvaluated])
    ELSE 0

HitFrame == UNCHANGED <<now, raceVars, tunerVars, scoreVars, extraVars>>

HitWaits == {1, Ms(DEFAULT_MAX_AGE)}

\* the first batch B, with six predicted files
HitLogFirst ==
    \E s \in Sessions :
        /\ logCalls = << >>
        /\ StepRequest("log", [s |-> s, f |-> "", p |-> NoProject], MaxHitOps)
        /\ LogPrediction(s, LongList)
        /\ HitFrame

\* the session of B reads a file of B's top five
HitCheck ==
    \E s \in Sessions, p \in ProjectIds :
        /\ Len(logCalls) = 1 /\ metrics.hits = 0
        /\ predictions[s].list # << >>
        /\ StepRequest("check", [s |-> s, f |-> "f2", p |-> p], MaxHitOps)
        /\ CheckHit(s, "f2", p)
        /\ HitFrame

\* the second batch, of either session, once B is hit
HitLogSecond ==
    \E s \in Sessions, pf \in {LongList, ShortList} :
        /\ Len(logCalls) = 1 /\ metrics.hits = 1
        /\ StepRequest("log", [s |-> s, f |-> "", p |-> NoProject], MaxHitOps)
        /\ LogPrediction(s, pf)
        /\ HitFrame

\* a read that matches no batch
HitRead ==
    \E s \in Sessions :
        /\ Len(logCalls) = 2 /\ lastOp # "finalize"
        /\ StepRequest("check", [s |-> s, f |-> "f7", p |-> NoProject], MaxHitOps)
        /\ CheckHit(s, "f7", NoProject)
        /\ HitFrame

HitTick ==
    \E d \in HitWaits :
        /\ lastOp # "finalize"
        /\ StepWithin("tick", MaxHitOps)
        /\ Tick(d)
        /\ UNCHANGED <<evalVars, raceVars, tunerVars, scoreVars, extraVars>>

\* POST /predict/finalize once the second batch is max_age_seconds old
HitFinalize ==
    \E m \in MaxAges :
        /\ Len(logCalls) = 2 /\ lastOp # "finalize"
        /\ logCalls[2] + Ms(m) <= now
        /\ StepWithin("finalize", MaxHitOps)
        /\ Finalize(m)
        /\ HitFrame

NextHit == HitLogFirst \/ HitCheck \/ HitLogSecond \/ HitRead \/ HitTick \/ HitFinalize

SpecHit == Init /\ [][NextHit]_vars

(***************************************************************************)
(* The finalizer among logs, reads and waits of any length.                *)
(***************************************************************************)
FinalWaits == {1, Ms(DEFAULT_MAX_AGE), Ms(ROLLING_WINDOW_SECONDS)}
FinalLists == {LongList, ShortList}
FinalReads == {"f2", "f7"}

FinalLog ==
    \E s \in Sessions, pf \in FinalLists :
        /\ StepRequest("log", [s |-> s, f |-> "", p |-> NoProject], MaxFinalOps)
        /\ LogPrediction(s, pf)
        /\ HitFrame

FinalCheck ==
    \E s \in Sessions, f \in FinalReads :
        /\ StepRequest("check", [s |-> s, f |-> f, p |-> NoProject], MaxFinalOps)
        /\ CheckHit(s, f, NoProject)
        /\ HitFrame

FinalTick ==
    \E d \in FinalWaits :
        /\ StepWithin("tick", MaxFinalOps)
        /\ Tick(d)
        /\ UNCHANGED <<evalVars, raceVars, tunerVars, scoreVars, extraVars>>

\* POST /predict/finalize {max_age_seconds}
FinalFinalize ==
    \E m \in MaxAges :
        /\ StepRequest("finalize", [s |-> "", f |-> "", p |-> NoProject, max_age |-> m],
                       MaxFinalOps)
        /\ Finalize(m)
        /\ HitFrame

NextFinal == FinalLog \/ FinalCheck \/ FinalTick \/ FinalFinalize

SpecFinal == Init /\ [][NextFinal]_vars

(***************************************************************************)
(* IndexManager: the project indexes and the selection of one for a query. *)
(* An index is named by its registration: LocalIndex for the legacy index  *)
(* of CODEBASE_ROOT, a project id for the index of that project.           *)
(***************************************************************************)
NoIndex == "none"
LocalIndex == "local"

Registered(project_id) ==
    \E i \in 1..Len(manager.projects) : manager.projects[i] = project_id

\* IndexManager.get_local: None and the empty string are both "no project id"
GetLocal(project_id) ==
    IF project_id # NoProject
    THEN IF Registered(project_id) THEN project_id
         ELSE IF manager.local THEN LocalIndex
         ELSE NoIndex
    ELSE IF manager.local THEN LocalIndex
         ELSE IF manager.projects # << >> THEN manager.projects[1]
         ELSE NoIndex

\* IndexManager._load_project for an accessible path: a registered id keeps its index
LoadProject(project_id) ==
    manager' = IF Registered(project_id) THEN manager
               ELSE [manager EXCEPT !.projects = Append(@, project_id)]

\* IndexManager.unregister_project
UnregisterProject(project_id) ==
    manager' = [manager EXCEPT !.projects = SelectSeq(@, LAMBDA p : p # project_id)]

ServiceFrameOthers ==
    UNCHANGED <<now, evalVars, raceVars, tunerVars, scoreVars, intentVars, indexVars,
                batchVars, trackerVars>>

ManagerFrame ==
    /\ ServiceFrameOthers
    /\ UNCHANGED <<whitelist_file, context_cache, rlock, threads, workers>>

ManagerRegister ==
    \E p \in Projects :
        /\ StepRequest("register", [p |-> p, index |-> NoIndex], MaxManagerOps)
        /\ LoadProject(p)
        /\ ManagerFrame

ManagerUnregister ==
    \E p \in Projects :
        /\ StepRequest("unregister", [p |-> p, index |-> NoIndex], MaxManagerOps)
        /\ UnregisterProject(p)
        /\ ManagerFrame

\* a query bearing project p (or none) asks the manager for its index
ManagerSelect ==
    \E p \in ProjectIds :
        /\ StepRequest("select", [p |-> p, index |-> GetLocal(p)], MaxManagerOps)
        /\ UNCHANGED manager
        /\ ManagerFrame

NextManager == ManagerRegister \/ ManagerUnregister \/ ManagerSelect

SpecManager == InitManager /\ [][NextManager]_vars

(***************************************************************************)
(* POST /context: keywords of the intent, the one-hour cache under the     *)
(* sorted keywords, and the ranked files.  The requests carry no trigger   *)
(* file, so no transition prediction is mixed in; snippets are left out,   *)
(* they add no file.                                                       *)
(***************************************************************************)
CONTEXT_CACHE_TTL == 3600
Words == {"the", "db", "api"}
\* len(t) of each word
WordLen == [t \in Words |-> IF t = "db" THEN 2 ELSE 3]
\* the members of STOPWORDS among the words
StopWords == {"the"}
\* the intents, as the tokens that re.findall finds in their lowered text
Intents == {<<"the">>, <<"api">>, <<"the", "api", "db">>, <<"api", "api">>}
ContextLimits == {1, 2, 3}

\* extract_keywords: no stopwords, no short tokens, the first of equal tokens kept
ExtractKeywords(tokens) ==
    LET keywords == SelectSeq(tokens, LAMBDA t : t \notin StopWords /\ WordLen[t] > 2)
        first == {i \in 1..Len(keywords) : \A j \in 1..(i - 1) : keywords[j] # keywords[i]}
    IN  [n \in 1..Cardinality(first) |->
            keywords[CHOOSE i \in first : Cardinality({j \in first : j <= i}) = n]]

\* map_keywords_to_tags: of INTENT_PATTERNS only r'api|endpoint|...' matches a word
MapKeywordsToTags(keywords) == IF "api" \in Range(keywords) THEN {"api"} ELSE {}

\* the cache key: the sorted keywords joined by ':'.  The keywords are
\* distinct and hold no ':', so the key names exactly their set.
CacheKey(keywords) == Range(keywords)

\* the files of a fresh result: as /predict, get_ranked_files(all_tags, limit * 2),
\* its first limit entries, sorted by confidence and trimmed to limit
ContextFiles(all_tags, limit) ==
    LET results == Take(GetRankedFiles(all_tags, limit * 2), limit)
        confidence == [f \in Range(results) |-> Round3(Confidence(f, all_tags))]
    IN  Take(SortByConfidence(results, confidence), limit)

\* context_search(intent, limit): an empty list of files is falsy as a cached
\* value only when nothing was stored, json.dumps of a result is never empty
ContextSearch(intent, limit) ==
    LET keywords == ExtractKeywords(intent)
        cache_key == CacheKey(keywords)
        hit == cache_key \in DOMAIN context_cache /\ now < context_cache[cache_key].exp
        all_tags == Range(keywords) \cup MapKeywordsToTags(keywords)
        fresh == ContextFiles(all_tags, limit)
    IN  IF keywords = << >>
        THEN /\ response' = [kind |-> "error", project |-> NoProject, files |-> << >>]
             /\ UNCHANGED context_cache
        ELSE IF hit
        THEN /\ response' = [kind |-> "context", project |-> NoProject,
                             files |-> context_cache[cache_key].files]
             /\ UNCHANGED context_cache
        ELSE /\ response' = [kind |-> "context", project |-> NoProject, files |-> fresh]
             /\ context_cache' = Put(context_cache, cache_key,
                                     [files |-> fresh, exp |-> now + Ms(CONTEXT_CACHE_TTL)])

ContextFrame ==
    UNCHANGED <<evalVars, raceVars, tunerVars, intentVars, indexVars, batchVars,
                trackerVars, manager, whitelist_file, rlock, threads, workers>>

ContextTickSteps == {Ms(1), Ms(CONTEXT_CACHE_TTL)}

ContextTick ==
    \E d \in ContextTickSteps :
        /\ StepRequest("tick", [limit |-> 0], MaxContextOps)
        /\ Tick(d)
        /\ UNCHANGED <<scoreVars, context_cache>>
        /\ ContextFrame

ContextRecord ==
    \E f \in Files, tags \in {{}, {"api"}} :
        /\ StepRequest("record", [limit |-> 0], MaxContextOps)
        /\ RankRecord(f, tags, NoProject)
        /\ UNCHANGED <<now, context_cache>>
        /\ ContextFrame

ContextRequest ==
    \E intent \in Intents, limit \in ContextLimits :
        /\ StepRequest("context", [limit |-> limit], MaxContextOps)
        /\ ContextSearch(intent, limit)
        /\ UNCHANGED <<now, recency, frequency, tagAffinity, first_seen, recordedUnder>>
        /\ ContextFrame

NextContext == ContextTick \/ ContextRecord \/ ContextRequest

SpecContext == Init /\ [][NextContext]_vars

(***************************************************************************)
(* The git proxy: the whitelist file and the validation of a URL.  A URL   *)
(* is modelled by what urlsplit makes of it.                               *)
(***************************************************************************)
DEFAULT_ALLOWED_HOSTS == <<"github.com", "gitlab.com", "bitbucket.org">>
HostArgs == {"github.com", "git.example.com", "Git.Example.COM.", "internal.dev", "bad host"}

\* host.strip().lower().rstrip("."): only one of the hosts is not in normal form
NormalizeHost(host) == IF host = "Git.Example.COM." THEN "git.example.com" ELSE host

\* is_valid_hostname: of the normalized hosts only "bad host" has a malformed label
IsValidHostname(host) == host \notin {"", "bad host"}

\* load_whitelist: a missing file is first written with the defaults
LoadedFile ==
    IF whitelist_file.exists THEN whitelist_file
    ELSE [exists |-> TRUE, lines |-> DEFAULT_ALLOWED_HOSTS]

\* the hosts load_whitelist returns: the non-empty lines of the file
LoadWhitelist == SelectSeq(LoadedFile.lines, LAMBDA h : h # "")

\* a save_whitelist whose write is lost
SaveWhitelist_Dropped(hosts) == LoadedFile

\* save_whitelist: one host per line
SaveWhitelist(hosts) == [exists |-> TRUE, lines |-> hosts]

\* hosts.remove(host): the first occurrence goes
RemoveFirst(hosts, host) ==
    LET i == CHOOSE j \in 1..Len(hosts) :
                 hosts[j] = host /\ \A k \in 1..(j - 1) : hosts[k] # host
    IN  SubSeq(hosts, 1, i - 1) \o SubSeq(hosts, i + 1, Len(hosts))

\* add_to_whitelist(host): whether it succeeds, and the file it leaves
AddToWhitelist(raw) ==
    LET host == NormalizeHost(raw)
        hosts == LoadWhitelist
    IN  IF ~IsValidHostname(host) THEN [ok |-> FALSE, file |-> whitelist_file]
        ELSE IF host \in Range(hosts) THEN [ok |-> FALSE, file |-> LoadedFile]
        ELSE [ok |-> TRUE, file |-> SaveWhitelist(Append(hosts, host))]

\* remove_from_whitelist(host)
RemoveFromWhitelist(raw) ==
    LET host == NormalizeHost(raw)
        hosts == LoadWhitelist
    IN  IF host \in Range(DEFAULT_ALLOWED_HOSTS) THEN [ok |-> FALSE, file |-> LoadedFile]
        ELSE IF host \notin Range(hosts) THEN [ok |-> FALSE, file |-> LoadedFile]
        ELSE [ok |-> TRUE, file |-> SaveWhitelist(RemoveFirst(hosts, host))]

GoodPath == "/org/repo"
UrlPaths == {GoodPath, "/", "/org/../repo"}

\* the https URL https://<host>/org/repo
UrlOn(host) ==
    [scheme |-> "https", credentials |-> FALSE, query |-> FALSE, host |-> host,
     port |-> FALSE, path |-> GoodPath]

\* the URLs of the requests: the plain URL on each host and its malformed variants
Urls ==
    {UrlOn(h) : h \in HostArgs}
        \cup {[UrlOn("github.com") EXCEPT !.scheme = "http"],
              [UrlOn("github.com") EXCEPT !.credentials = TRUE],
              [UrlOn("git.example.com") EXCEPT !.query = TRUE],
              [UrlOn("git.example.com") EXCEPT !.port = TRUE],
              [UrlOn("git.example.com") EXCEPT !.path = "/"],
              [UrlOn("internal.dev") EXCEPT !.path = "/org/../repo"]}

\* validate_git_url(url): whether the URL is accepted, and the file the call leaves
ValidateGitUrl(url) ==
    LET host == NormalizeHost(url.host)
    IN  IF \/ url.scheme # "https"
           \/ url.credentials
           \/ url.query
           \/ ~IsValidHostname(host)
           \/ url.port
           \/ url.path = "/"
        THEN [ok |-> FALSE, file |-> whitelist_file]
        ELSE IF host \notin Range(LoadWhitelist) THEN [ok |-> FALSE, file |-> LoadedFile]
        ELSE [ok |-> url.path = GoodPath, file |-> LoadedFile]

ProxyFrame ==
    /\ ServiceFrameOthers
    /\ UNCHANGED <<manager, context_cache, rlock, threads, workers>>

ProxyAdd ==
    \E host \in HostArgs :
        /\ StepRequest("add", [host |-> host, ok |-> AddToWhitelist(host).ok], MaxProxyOps)
        /\ whitelist_file' = AddToWhitelist(host).file
        /\ ProxyFrame

ProxyRemove ==
    \E host \in HostArgs :
        /\ StepRequest("remove", [host |-> host, ok |-> RemoveFromWhitelist(host).ok],
                       MaxProxyOps)
        /\ whitelist_file' = RemoveFromWhitelist(host).file
        /\ ProxyFrame

ProxyValidate ==
    \E url \in Urls :
        /\ StepRequest("validate", [host |-> url.host, ok |-> ValidateGitUrl(url).ok],
                       MaxProxyOps)
        /\ whitelist_file' = ValidateGitUrl(url).file
        /\ ProxyFrame

NextProxy == ProxyAdd \/ ProxyRemove \/ ProxyValidate

SpecProxy == Init /\ [][NextProxy]_vars

(***************************************************************************)
(* CodebaseIndex.lock, a threading.RLock, as the threads of the server and *)
(* the watcher take it: search holds it while it reads the inverted index, *)
(* index_file while it rewrites the entries of a file.  A thread is idle,  *)
(* at the `with self.lock` it has to enter ("acquire"), or inside the      *)
(* block ("locked").  What the block reads or writes is left to the model  *)
(* of the index above.                                                     *)
(***************************************************************************)
\* RLock.acquire can return: the lock is free or the caller owns it already
CanAcquire(t) == rlock.owner \in {NoThread, t}

\* RLock.acquire, once it returns
Acquire(t) == rlock' = [owner |-> t, count |-> rlock.count + 1]

\* RLock.release
Release(t) ==
    rlock' = IF rlock.count = 1 THEN [owner |-> NoThread, count |-> 0]
             ELSE [rlock EXCEPT !.count = @ - 1]

LockFrame ==
    /\ ServiceFrameOthers
    /\ UNCHANGED <<manager, whitelist_file, context_cache, workers>>

\* a request thread calls search, the watcher calls index_file
LockCall ==
    \E t \in IndexThreads :
        /\ threads[t] = "idle"
        /\ StepRequest("call", [t |-> t], MaxLockOps)
        /\ threads' = [threads EXCEPT ![t] = "acquire"]
        /\ UNCHANGED rlock
        /\ LockFrame

\* the thread enters the `with self.lock` block
LockEnter ==
    \E t \in IndexThreads :
        /\ threads[t] = "acquire"
        /\ CanAcquire(t)
        /\ StepRequest("enter", [t |-> t], MaxLockOps)
        /\ Acquire(t)
        /\ threads' = [threads EXCEPT ![t] = "locked"]
        /\ LockFrame

\* the thread leaves the block; the rest of the call needs no lock
LockLeave ==
    \E t \in IndexThreads :
        /\ threads[t] = "locked"
        /\ StepRequest("leave", [t |-> t], MaxLockOps)
        /\ Release(t)
        /\ threads' = [threads EXCEPT ![t] = "idle"]
        /\ LockFrame

NextLock == LockCall \/ LockEnter \/ LockLeave

SpecLock == Init /\ [][NextLock]_vars

(***************************************************************************)
(* SequenceTracker.record_access as concurrent threads of the server run   *)
(* it: one step per Redis command (the commands on the timing list go with *)
(* the HINCRBY before them, those on the session list are one step), the   *)
(* locals of each thread in workers.                                       *)
(***************************************************************************)
\* the files the concurrent threads read
LiveFiles == {"b.py", "c.py"}

LiveFrame ==
    UNCHANGED <<now, evalVars, raceVars, tunerVars, scoreVars, intentVars, indexVars,
                batchVars, manager, whitelist_file, context_cache, rlock, threads>>

AtPc(w, pc) == workers[w].pc = pc

\* record_access up to the LRANGE of _get_recent_accesses
LiveCall ==
    \E w \in TrackerThreads, session_id \in Sessions, file_path \in LiveFiles :
        /\ AtPc(w, "idle")
        /\ StepRequest("call", [w |-> w], MaxLiveOps)
        /\ workers' = [workers EXCEPT ![w] =
                [IdleWorker EXCEPT !.pc = "loop", !.session_id = session_id,
                                   !.file_path = file_path,
                                   !.recent = RecentAccesses(session_id)]]
        /\ UNCHANGED trackerVars
        /\ LiveFrame

\* the next prev_access of the loop: _record_transition up to its call of
\* _update_probabilities, nothing for a self-transition
LiveTransition ==
    \E w \in TrackerThreads :
        /\ AtPc(w, "loop")
        /\ workers[w].recent # << >>
        /\ StepRequest("hincrby", [w |-> w], MaxLiveOps)
        /\ LET from_file == Head(workers[w].recent).file_path
               to_file == workers[w].file_path
               key == <<from_file, to_file>>
               timings == IF key \in DOMAIN transition_timing
                          THEN transition_timing[key] ELSE << >>
               time_delta == now - Head(workers[w].recent).timestamp
           IN  IF from_file = to_file
               THEN /\ workers' = [workers EXCEPT ![w].recent = Tail(@)]
                    /\ UNCHANGED <<transition_counts, transition_timing>>
               ELSE /\ workers' = [workers EXCEPT ![w].recent = Tail(@),
                                                  ![w].from_file = from_file,
                                                  ![w].pc = "hgetall"]
                    /\ transition_counts' = Increment(transition_counts, from_file, to_file)
                    /\ transition_timing' =
                           Put(transition_timing, key,
                               Take(<<time_delta>> \o timings, TIMING_TRIM_STOP + 1))
        /\ UNCHANGED <<sequences, transitions>>
        /\ LiveFrame

\* _update_probabilities: counts = HGETALL of the source's hash
LiveReadCounts ==
    \E w \in TrackerThreads :
        /\ AtPc(w, "hgetall")
        /\ StepRequest("hgetall", [w |-> w], MaxLiveOps)
        /\ LET counts == IF workers[w].from_file \in DOMAIN transition_counts
                         THEN transition_counts[workers[w].from_file] ELSE EmptyMap
           IN  workers' = [workers EXCEPT
                   ![w].counts = counts,
                   ![w].pc = IF DOMAIN counts = {} THEN "loop" ELSE "delete"]
        /\ UNCHANGED trackerVars
        /\ LiveFrame

\* _update_probabilities: DEL of the source's sorted set
LiveDelete ==
    \E w \in TrackerThreads :
        /\ AtPc(w, "delete")
        /\ StepRequest("delete", [w |-> w], MaxLiveOps)
        /\ transitions' = Put(transitions, workers[w].from_file, EmptyMap)
        /\ workers' = [workers EXCEPT
               ![w].todo = {m \in DOMAIN workers[w].counts :
                               workers[w].counts[m] >= MIN_TRANSITION_COUNT},
               ![w].pc = "zadd"]
        /\ UNCHANGED <<sequences, transition_counts, transition_timing>>
        /\ LiveFrame

\* the sum of the counts a thread read
RECURSIVE SumCounts(_, _)
SumCounts(counts, ms) ==
    IF ms = {} THEN 0
    ELSE LET m == CHOOSE x \in ms : TRUE
         IN  counts[m] + SumCounts(counts, ms \ {m})

\* _update_probabilities: one ZADD of the loop over the counts that were read
LiveZAdd ==
    \E w \in TrackerThreads :
        /\ AtPc(w, "zadd")
        /\ \E to_file \in workers[w].todo :
            LET counts == workers[w].counts
                probability == [num |-> counts[to_file],
                                den |-> SumCounts(counts, DOMAIN counts)]
                from_file == workers[w].from_file
                zset == IF from_file \in DOMAIN transitions
                        THEN transitions[from_file] ELSE EmptyMap
            IN  /\ transitions' = Put(transitions, from_file, Put(zset, to_file, probability))
                /\ workers' = [workers EXCEPT ![w].todo = @ \ {to_file}]
        /\ StepRequest("zadd", [w |-> w], MaxLiveOps)
        /\ UNCHANGED <<sequences, transition_counts, transition_timing>>
        /\ LiveFrame

\* _update_probabilities after the loop: ZREMRANGEBYRANK keeps the best
\* MAX_TRANSITIONS_PER_FILE members, EXPIRE; back to the loop of record_access
LivePrune ==
    \E w \in TrackerThreads :
        /\ AtPc(w, "zadd")
        /\ workers[w].todo = {}
        /\ StepRequest("prune", [w |-> w], MaxLiveOps)
        /\ LET from_file == workers[w].from_file
               zset == IF from_file \in DOMAIN transitions
                       THEN transitions[from_file] ELSE EmptyMap
               top == ZRevRange(zset, 0, MAX_TRANSITIONS_PER_FILE - 1)
           IN  transitions' = Put(transitions, from_file,
                                  [m \in {top[i].member : i \in 1..Len(top)} |-> zset[m]])
        /\ workers' = [workers EXCEPT ![w].pc = "loop"]
        /\ UNCHANGED <<sequences, transition_counts, transition_timing>>
        /\ LiveFrame

\* record_access after the loop: LPUSH, LTRIM and EXPIRE of the session's list
LivePush ==
    \E w \in TrackerThreads :
        /\ AtPc(w, "loop")
        /\ workers[w].recent = << >>
        /\ StepRequest("lpush", [w |-> w], MaxLiveOps)
        /\ sequences' = [sequences EXCEPT ![workers[w].session_id] =
               Take(<<[file_path |-> workers[w].file_path, timestamp |-> now]>> \o @,
                    SEQUENCE_TRIM_STOP + 1)]
        /\ workers' = [workers EXCEPT ![w] = IdleWorker]
        /\ UNCHANGED <<transition_counts, transition_timing, transitions>>
        /\ LiveFrame

NextLive ==
    \/ LiveCall
    \/ LiveTransition
    \/ LiveReadCounts
    \/ LiveDelete
    \/ LiveZAdd
    \/ LivePrune
    \/ LivePush

SpecLive == InitLive /\ [][NextLive]_vars

(***************************************************************************)
(* The claims about the rolling evaluator.                                 *)
(***************************************************************************)
\* a step of the evaluator that is the request CheckHit(s, f, p)
CheckStep(s, f, p) == lastReq' = [s |-> s, f |-> f, p |-> p] /\ CheckHit(s, f, p)

Evaluated == {"1", "0"}

SumProjectHits == projMetrics["p1"].hits + projMetrics["p2"].hits
SumProjectMisses == projMetrics["p1"].misses + projMetrics["p2"].misses

\* C1: over complete LogPrediction, CheckHit and Finalize calls, a batch whose
\* flag is hit or miss never changes again, and a pending batch turns to miss
\* only in a Finalize call.
C1_FlagSetOnce ==
    [][\A k \in DOMAIN rollingData :
          /\ rollingData[k].hit \in Evaluated
                => rollingData'[k].hit = rollingData[k].hit
          /\ (rollingData[k].hit = "" /\ rollingData'[k].hit = "0")
                => \E m \in MaxAges : Finalize(m)]_vars

\* C2: when a CheckHit that matches batch B and a Finalize that covers B
\* interleave, B ends in the state written by the one that first read B as
\* pending: hit if that was the CheckHit, miss if that was the Finalize.
C2_FirstObserverWins ==
    (chk.pc = "idle" /\ fin.pc = "idle") =>
        \A k \in DOMAIN firstSeen :
            rollingData[k].hit = (IF firstSeen[k] = "check" THEN "1" ELSE "0")

\* C3: the hits, misses and pending of the 24 h window sum to the number of
\* LogPrediction calls, with a non-empty prediction list, whose timestamp lies
\* in the window.
C3_WindowCountsLogCalls ==
    RollingHits + RollingMisses + RollingPending =
        Cardinality({i \in 1..Len(logCalls) :
            /\ now - Ms(ROLLING_WINDOW_SECONDS) <= logCalls[i]
            /\ logCalls[i] <= now})

\* C4: CheckHit(session, f) counts a hit, and marks a batch hit, only when f is
\* one of the first five predicted files logged for a batch of the session.
C4_HitOnlyInTopFive ==
    [][\A s \in Sessions, f \in ReadFiles, p \in ProjectIds :
          (CheckStep(s, f, p) /\ (metrics'.hits > metrics.hits \/ rollingData' # rollingData))
              => \E k \in Range(LRange(s)) :
                    f \in Range(Take(prediction[k].predicted_files, TOP_K))]_vars

\* the entries of the session's list that a CheckHit for f passes over before
\* entry i: none of them lists f
NoNewerEntryLists(keys, i, f) ==
    \A j \in 1..(i - 1) : f \notin Range(prediction[keys[j]].predicted_files)

\* the batches of session s logged later than batch k
NewerBatches(s, k) == {j \in DOMAIN rollingData : j[1] = s /\ j[2] > k[2]}

\* C5 as stated: a CheckHit(S, f) within 24 h of logging a pending batch B of S,
\* with f in B's top-5 and B among the 10 most recent batches of S, marks B hit.
C5_EvaluableForWindow ==
    [][\A s \in Sessions, f \in ReadFiles, p \in ProjectIds :
          CheckStep(s, f, p) =>
              \A k \in DOMAIN rollingData :
                  ( /\ k[1] = s
                    /\ HGetHit(rollingData, k) = ""
                    /\ now - k[2] <= Ms(ROLLING_WINDOW_SECONDS)
                    /\ f \in Range(rollingData[k].predicted_files)
                    /\ Cardinality(NewerBatches(s, k)) < LRANGE_STOP )
                  => rollingData'[k].hit = "1"]_vars

\* C5 as amended: a CheckHit(S, f) less than 60 s after a pending batch B of S
\* was logged, with f in B's top-5, B among the 11 newest entries of the list
\* of S and no newer entry of the list predicting f, marks B hit.
C5_EvaluableForTTL ==
    [][\A s \in Sessions, f \in ReadFiles, p \in ProjectIds :
          CheckStep(s, f, p) =>
              \A i \in 1..Len(predictions[s].list) :
                  LET k == predictions[s].list[i]
                  IN  ( /\ i <= LRANGE_STOP + 1
                        /\ HGetHit(rollingData, k) = ""
                        /\ now - k[2] < Ms(PREDICTION_TTL)
                        /\ f \in Range(rollingData[k].predicted_files)
                        /\ NoNewerEntryLists(predictions[s].list, i, f) )
                      => rollingData'[k].hit = "1"]_vars

\* a CheckHit has just marked the only batch hit, one tick after it was logged
C5_Witness ==
    /\ lastOp = "check"
    /\ metrics.hits = 1
    /\ Len(logCalls) = 1
    /\ \E k \in DOMAIN rollingData :
          /\ rollingData[k].hit = "1"
          /\ now - k[2] > 0
          /\ now - k[2] < Ms(PREDICTION_TTL)

\* the batch a CheckHit(s, f) matches is already hit
MatchesHitBatch(s, f) ==
    /\ FirstMatch(LRange(s), f) # 0
    /\ HGetHit(rollingData, LRange(s)[FirstMatch(LRange(s), f)]) = "1"

\* C6 as stated: a second CheckHit that matches an already-hit batch leaves the
\* flag, the rolling hit/miss/pending counts and the hit counters as they were.
C6_SecondHitNoOp ==
    [][\A s \in Sessions, f \in ReadFiles, p \in ProjectIds :
          (CheckStep(s, f, p) /\ MatchesHitBatch(s, f)) =>
              /\ rollingData' = rollingData
              /\ RollingHits' = RollingHits
              /\ RollingMisses' = RollingMisses
              /\ RollingPending' = RollingPending
              /\ metrics'.hits = metrics.hits
              /\ SumProjectHits' = SumProjectHits]_vars

\* C6 as amended: a second CheckHit that matches an already-hit batch leaves
\* the flag and the rolling hit/miss/pending counts as they were, and counts
\* one more hit in the cumulative hit counter (and in the project's, if given).
C6_SecondHitKeepsFlag ==
    [][\A s \in Sessions, f \in ReadFiles, p \in ProjectIds :
          (CheckStep(s, f, p) /\ MatchesHitBatch(s, f)) =>
              /\ rollingData' = rollingData
              /\ RollingHits' = RollingHits
              /\ RollingMisses' = RollingMisses
              /\ RollingPending' = RollingPending
              /\ metrics'.hits = metrics.hits + 1
              /\ metrics'.misses = metrics.misses
              /\ SumProjectHits' = SumProjectHits + (IF p = NoProject THEN 0 ELSE 1)]_vars

\* two CheckHits have counted a hit and one batch is hit
C6_Witness ==
    /\ lastOp = "check"
    /\ metrics.hits = 2
    /\ Len(logCalls) = 1
    /\ \E k \in DOMAIN rollingData : rollingData[k].hit = "1"

\* C7 as stated: the global hit count is the sum of the per-project hit counts,
\* and likewise for misses.
C7_GlobalIsSumOfProjects ==
    /\ metrics.hits = SumProjectHits
    /\ metrics.misses = SumProjectMisses

\* C7 as amended: the global hit count is the sum of the per-project hit counts
\* plus the hits counted by CheckHit calls without a project id, and likewise
\* for misses.
C7_GlobalIsSumPlusUnscoped ==
    /\ metrics.hits = SumProjectHits + unscoped.hits
    /\ metrics.misses = SumProjectMisses + unscoped.misses

\* both projects and a call without project id have counted an outcome
C7_Witness ==
    /\ projMetrics["p1"].misses = 1
    /\ projMetrics["p2"].hits = 1
    /\ unscoped.hits = 1
    /\ metrics.hits = 2

(***************************************************************************)
(* The claims about the weight tuner.                                      *)
(***************************************************************************)
\* C8: each prediction batch contributes at most one outcome to the arm
\* statistics, however many times feedback is submitted for it.
C8_OneOutcomePerBatch == \A b \in Batches : outcomes[b] <= 1

\* C9: a request that records feedback without an arm index has its outcome
\* counted for the arm its own Select returned.
C9_FeedbackOnOwnArm ==
    \A r \in Requests : req[r].pc = "done" => credited[r] = req[r].arm

(***************************************************************************)
(* The claims about the scorer.                                            *)
(***************************************************************************)
\* C10: score-based results are isolated by project: a predict response to a
\* caller with no project holds no file recorded only under projects with a
\* non-empty id, and a predict or rank response to a caller of project P holds
\* no file recorded only under other projects.
C10_ScoresIsolatedByProject ==
    \A f \in Range(response.files) :
        /\ (response.kind = "predict" /\ response.project = NoProject)
               => ~(recordedUnder[f] # {} /\ recordedUnder[f] \subseteq Projects)
        /\ response.project \in Projects
               => ~(recordedUnder[f] # {} /\ recordedUnder[f] \subseteq Projects \ {response.project})

(***************************************************************************)
(* The claims about the intent index.                                      *)
(***************************************************************************)
\* the arguments of /intent/recent: since_ts (0 when absent) and limit
SinceArgs == {0, NowSeconds, NowSeconds - PREDICTION_TTL}
RecentLimits == {0, 1, 2}

\* everything the queries answer for a project
QueryResults(project_id) ==
    [files |-> [t \in IntentTags |-> FilesForTag(t, project_id)],
     tags |-> [f \in FileArgs |-> TagsForFile(f, project_id)],
     recent |-> [a \in SinceArgs \X RecentLimits |-> Recent(a[1], a[2], project_id)],
     stats |-> IntentStats(project_id)]

\* C11: a record made under one project key changes no answer of Recent,
\* FilesForTag, TagsForFile or Stats for a different project key, and Recent for
\* a project holds only records made under that project's key.
C11_ProjectsIsolated ==
    [][lastOp' = "intent" =>
        \A P \in IntentProjectIds :
            /\ ProjectKey(P) # ProjectKey(lastReq'.p) => QueryResults(P)' = QueryResults(P)
            /\ \A r \in Range(Recent(0, 0, P)') : ProjectKey(r.project_id) = ProjectKey(P)]_vars

\* records exist under two different project keys, the last one just made
C11_Witness ==
    /\ lastOp = "intent"
    /\ \E P \in IntentProjectIds :
        /\ ProjectKey(P) # ProjectKey(lastReq.p)
        /\ timeline[ProjectKey(P)] # << >>
        /\ tag_to_files[ProjectKey(P)] # EmptyMap
        /\ Len(timeline[ProjectKey(lastReq.p)]) > 1
\* the file has an entry of its own in the project's file -> tags map
HasExactEntry(file, project_id) == IndexOfFile(file_to_tags[ProjectKey(project_id)], file) # 0

\* C12 as stated: for every project, tag and file argument, the file is among
\* the files of the tag exactly when the tag is among the tags of the file.
C12_TagFileSymmetric ==
    \A P \in IntentProjectIds, t \in IntentTags, f \in FileArgs :
        f \in FilesForTag(t, P) <=> t \in TagsForFile(f, P)

\* C12: every file among the files of a tag has the tag among its tags, and the
\* converse holds for every file argument that has an entry of its own in the
\* project's map; other arguments are answered from the first stored path that
\* contains them.
C12_SymmetricOnExactFiles ==
    \A P \in IntentProjectIds, t \in IntentTags, f \in FileArgs :
        /\ f \in FilesForTag(t, P) => t \in TagsForFile(f, P)
        /\ HasExactEntry(f, P) /\ t \in TagsForFile(f, P) => f \in FilesForTag(t, P)

\* a project holds a tagged file, and a bare name without an entry is answered
\* from a stored path that contains it
C12_Witness ==
    \E P \in IntentProjectIds, f \in FileArgs, t \in IntentTags :
        /\ ~HasExactEntry(f, P)
        /\ TagsForFile(f, P) # {}
        /\ \E g \in IntentFiles : HasExactEntry(g, P) /\ g \in FilesForTag(t, P)
(***************************************************************************)
(* The claims about the codebase index.                                    *)
(***************************************************************************)
\* every location of the inverted index
AllLocations == UNION {Range(inverted_index[t]) : t \in DOMAIN inverted_index}

\* C13: every location in the inverted index refers to a file that is present
\* in the file-metadata map, and the mtime of that file's metadata is the same
\* as or newer than the mtime of the location.
C13_LocationsHaveMetadata ==
    \A loc \in AllLocations :
        /\ loc.file \in DOMAIN files
        /\ files[loc.file].mtime >= loc.mtime

\* the locations of a file in an index, token by token, in order
LocationsIn(index, path) ==
    LET of(t) == SelectSeq(index[t], LAMBDA loc : loc.file = path)
    IN  [t \in {u \in DOMAIN index : of(u) # << >>} |-> of(t)]

\* the locations that tokenizing the content on disk produces
TokenizedLocations(path) ==
    AppendTokens(EmptyMap, Tokenize(disk[path].content), path, disk[path].mtime)

\* the file is known to the index with the hash of the content on disk
HashUnchanged(path) ==
    /\ path \in DOMAIN files
    /\ files[path].content_hash = ContentHash(disk[path].content)

\* C14: when a created or modified event re-indexes a readable file, the index
\* and the metadata stay as they were if the content hash is unchanged, and
\* otherwise the index holds for the file exactly the locations produced by
\* tokenizing the new content.
C14_ReindexExact ==
    [][lastOp' \in {"created", "modified"} /\ disk[lastReq'.f].exists =>
        IF HashUnchanged(lastReq'.f)
        THEN UNCHANGED <<inverted_index, files>>
        ELSE LocationsIn(inverted_index', lastReq'.f) = TokenizedLocations(lastReq'.f)]_vars

\* the type of the newest change record of a file, "none" if there is none
LastChange(path) ==
    LET idx == {i \in 1..Len(changes) : changes[i].file = path}
    IN  IF idx = {} THEN "none"
        ELSE changes[CHOOSE i \in idx : \A j \in idx : j <= i].change_type

\* C15: from the delivery of the deleted event of an indexed file until the file
\* is created again, no location of the inverted index is in the file and the
\* file is absent from the metadata.
C15_DeletedStaysPurged ==
    \A path \in IndexedFiles :
        LastChange(path) = "deleted" /\ ~disk[path].exists =>
            /\ path \notin DOMAIN files
            /\ \A loc \in AllLocations : loc.file # path
(***************************************************************************)
(* The claims about the transition model.                                  *)
(***************************************************************************)
\* the positions of a session's read sequence at which B immediately follows A
FollowPositions(sf, A, B) ==
    LET reads == ReadsOf(session_files[sf])
    IN  {i \in 1..(Len(reads) - 1) : reads[i] = A /\ reads[i + 1] = B}

RECURSIVE SumPositions(_, _, _)
SumPositions(sfs, A, B) ==
    IF sfs = {} THEN 0
    ELSE LET sf == CHOOSE x \in sfs : TRUE
         IN  Cardinality(FollowPositions(sf, A, B)) + SumPositions(sfs \ {sf}, A, B)

\* the number of positions, over all sessions, at which B follows a different file A
AdjacentCount(A, B) == IF A = B THEN 0 ELSE SumPositions(SessionFiles, A, B)

\* the count stored for the pair, 0 if none is stored
StoredCount(A, B) ==
    IF A \in DOMAIN transition /\ B \in DOMAIN transition[A] THEN transition[A][B] ELSE 0

\* C16: right after a batch import the count stored for (A, B) is the number of
\* positions at which B immediately follows a different file A inside one
\* session's read sequence, summed over the sessions; a pair with no such
\* position, as one that only spans two sessions or a self-transition, has no
\* stored entry.
C16_BatchCountsAdjacentPairs ==
    lastOp = "sync" =>
        \A A \in Files, B \in Files :
            /\ StoredCount(A, B) = AdjacentCount(A, B)
            /\ AdjacentCount(A, B) = 0 => ~(A \in DOMAIN transition /\ B \in DOMAIN transition[A])

\* an import of two sessions, the first ending in a file other than the one the
\* second starts with, one of them re-reading a file, with a pair counted
C16_Witness ==
    /\ lastOp = "sync"
    /\ LET r1 == ReadsOf(session_files["agent-1.jsonl"])
           r2 == ReadsOf(session_files["agent-2.jsonl"])
       IN  /\ r1 # << >> /\ r2 # << >>
           /\ r1[Len(r1)] # r2[1]
           /\ StoredCount(r1[Len(r1)], r2[1]) = 0
           /\ \E i \in 1..(Len(r1) - 1) : r1[i] = r1[i + 1]
           /\ \E A \in Files, B \in Files : StoredCount(A, B) > 0
\* C17: recording an access to file B in session S raises by one the count of
\* (A, B), A being the access of S immediately before, and no other count; it
\* raises none when S has no earlier access or when A is B.
C17_OneTransitionPerAccess ==
    [][lastOp' = "access" /\ lastReq'.f \in Files =>
        LET prior == sequences[lastReq'.s]
            B == lastReq'.f
        IN  \A X \in Files, Y \in Files :
                TrackedCount(X, Y)' = TrackedCount(X, Y) +
                    (IF prior # << >> /\ X = Head(prior).file_path /\ Y = B /\ X # B
                     THEN 1 ELSE 0)]_vars

PredictLimits == {0, 1, 2, 5}

RECURSIVE SumProbabilities(_)
SumProbabilities(results) ==
    IF results = << >> THEN 0 ELSE Head(results).probability.num + SumProbabilities(Tail(results))

\* the probabilities of a returned list add up to one: they share a denominator
SumsToOne(results) ==
    /\ \A i \in 1..Len(results) : results[i].probability.den = results[1].probability.den
    /\ SumProbabilities(results) = results[1].probability.den

\* the batch half of C18: the list predict_next returns
BatchSumsToOne ==
    \A s \in Files, limit \in PredictLimits :
        PredictNext(s, limit) # << >> => SumsToOne(PredictNext(s, limit))

\* C18: for every source file and every limit, the probabilities of a
\* non-empty list returned by the prediction, from the imported counts as from
\* the tracked ones, add up to exactly one.
C18_ProbabilitiesSumToOne ==
    /\ BatchSumsToOne
    /\ \A s \in Files, limit \in PredictLimits :
           PredictNextFiles(s, limit) # << >> => SumsToOne(PredictNextFiles(s, limit))

\* the tracker half of C19
TrackerMinCountAndCap ==
    /\ \A s \in Files, limit \in PredictLimits :
           \A i \in 1..Len(PredictNextFiles(s, limit)) :
               TrackedCount(s, PredictNextFiles(s, limit)[i].to_file) >= MIN_TRANSITION_COUNT
    /\ \A s \in DOMAIN transitions :
           Cardinality(DOMAIN transitions[s]) <= MAX_TRANSITIONS_PER_FILE

\* C19: the prediction never returns a target whose count from the source is
\* below 2, and no source file has more than 20 stored targets, for the imported
\* counts as for the tracked ones.
C19_MinCountAndCap ==
    /\ \A s \in Files, limit \in PredictLimits :
           \A i \in 1..Len(PredictNext(s, limit)) :
               StoredCount(s, PredictNext(s, limit)[i].file_path) >= MIN_TRANSITION_COUNT
    /\ \A s \in DOMAIN transition :
           Cardinality(DOMAIN transition[s]) <= MAX_TRANSITIONS_PER_FILE
    /\ TrackerMinCountAndCap
\* the sample session was imported
SampleImported == transition # EmptyMap

\* the tracker was handed all reads of the sample session within its time window
SampleTracked ==
    /\ Len(sequences[SampleSession]) = Len(SampleReads)
    /\ sequences[SampleSession][1].timestamp
           - sequences[SampleSession][Len(SampleReads)].timestamp <= Ms(TIME_WINDOW_SECONDS)

\* the targets of a prediction with their probabilities
Predicted(results) ==
    {<<results[i].file_path, results[i].probability>> : i \in 1..Len(results)}

PredictedLive(results) ==
    {<<results[i].to_file, results[i].probability>> : i \in 1..Len(results)}

\* a prediction holds the target with probability one
CertainOf(predicted, target) ==
    \E e \in predicted : e[1] = target /\ e[2].num = e[2].den

\* C20 as stated: after the sample session is ingested, the prediction for
\* a.py holds b.py with probability 1, the prediction for b.py holds c.py with
\* probability 1, and the prediction for c.py is empty.
C20_SampleAsStated ==
    /\ SampleImported =>
        /\ CertainOf(Predicted(PredictNext("a.py", TOP_K)), "b.py")
        /\ CertainOf(Predicted(PredictNext("b.py", TOP_K)), "c.py")
        /\ PredictNext("c.py", TOP_K) = << >>
    /\ SampleTracked =>
        /\ CertainOf(PredictedLive(PredictNextFiles("a.py", TOP_K)), "b.py")
        /\ CertainOf(PredictedLive(PredictNextFiles("b.py", TOP_K)), "c.py")
        /\ PredictNextFiles("c.py", TOP_K) = << >>

\* C20: after the import of the sample session the prediction for a.py is b.py
\* and c.py with probability 1/2 each, for b.py it is a.py and c.py with 1/2
\* each, and for c.py it is b.py with probability 1; after the tracker saw the
\* six reads within its time window its prediction for a.py is c.py with 4/7
\* and b.py with 3/7, for b.py it is c.py with 3/4, and for c.py it is empty.
C20_SamplePredictions ==
    /\ SampleImported =>
        /\ Predicted(PredictNext("a.py", TOP_K)) =
               {<<"b.py", [num |-> 1, den |-> 2]>>, <<"c.py", [num |-> 1, den |-> 2]>>}
        /\ Predicted(PredictNext("b.py", TOP_K)) =
               {<<"a.py", [num |-> 1, den |-> 2]>>, <<"c.py", [num |-> 1, den |-> 2]>>}
        /\ Predicted(PredictNext("c.py", TOP_K)) = {<<"b.py", [num |-> 1, den |-> 1]>>}
    /\ SampleTracked =>
        /\ PredictedLive(PredictNextFiles("a.py", TOP_K)) =
               {<<"c.py", [num |-> 4, den |-> 7]>>, <<"b.py", [num |-> 3, den |-> 7]>>}
        /\ PredictedLive(PredictNextFiles("b.py", TOP_K)) = {<<"c.py", [num |-> 3, den |-> 4]>>}
        /\ PredictNextFiles("c.py", TOP_K) = << >>

\* the sample session was both imported and tracked
C20_Witness == SampleImported /\ SampleTracked /\ lastOp = "access"
(***************************************************************************)
(* The claims about the scorer called directly.                            *)
(***************************************************************************)
\* the score of a member of a sorted set, 0 when it is absent
ScoreOf(z, f) == IF f \in DOMAIN z THEN z[f] ELSE 0

\* the frequency of the file rises by exactly 1
AccessCountsOnce == ScoreOf(frequency', lastReq'.f) = ScoreOf(frequency, lastReq'.f) + 1

\* a supplied timestamp becomes the recency of the file
AccessSetsRecency ==
    lastReq'.timestamp # << >> => recency'[lastReq'.f] = lastReq'.timestamp[1]

\* first-seen is set only if it was absent
AccessKeepsFirstSeen ==
    /\ lastReq'.f \in DOMAIN first_seen'
    /\ lastReq'.f \in DOMAIN first_seen => first_seen' = first_seen

\* the counter of each tag of the call rises by exactly 1 for the file
AccessCountsTags ==
    \A t \in Range(lastReq'.tags) :
        ScoreOf(tagAffinity'[t], lastReq'.f) = ScoreOf(tagAffinity[t], lastReq'.f) + 1

\* C21: a record_access call of file f raises f's frequency by exactly 1, sets
\* f's recency to the supplied timestamp whatever it is, sets f's first-seen
\* only if it was absent, and raises each (tag, f) counter by exactly 1.
C21_RecordAccessEffects ==
    [][lastOp' = "access" =>
        AccessCountsOnce /\ AccessSetsRecency /\ AccessKeepsFirstSeen /\ AccessCountsTags]_vars
\* the limits of the rank queries looked at
RankLimits == {1, 2, 3}

\* file a may stand before file b in a ranking under the tags: by composite
\* descending, then by recency descending, then by file key ascending
RanksBefore(a, b, tags) ==
    \/ Composite(a, tags) > Composite(b, tags)
    \/ /\ Composite(a, tags) = Composite(b, tags)
       /\ \/ ScoreOf(recency, a) > ScoreOf(recency, b)
          \/ ScoreOf(recency, a) = ScoreOf(recency, b) /\ FileRank[a] < FileRank[b]

\* C22: get_ranked_files returns at most limit files, sorted by composite
\* descending; returned files of equal composite are ordered by recency, more
\* recent first, and then by file key lexicographically.
C22_RankedOrder ==
    \A tags \in TagSets, limit \in RankLimits :
        LET ranked == GetRankedFiles(tags, limit)
        IN  /\ Len(ranked) <= limit
            /\ \A i, j \in 1..Len(ranked) : i < j => RanksBefore(ranked[i], ranked[j], tags)
(***************************************************************************)
(* The claims about /predict.                                              *)
(***************************************************************************)
\* the candidates of a prediction: every file of the scorer's 2 * limit results
\* with its boosted confidence, and every transition prediction of probability
\* 0.1 or more outside of that list at 0.8 times its probability
Candidates(tags, limit, file_param) ==
    LET results == GetRankedFiles(tags, limit * 2)
        preds == TransitionPreds(file_param)
        others == {r \in Range(preds) : r.path \notin Range(results) /\ Probable(r.prob)}
    IN  [path \in Range(results) \cup {r.path : r \in others} |->
            IF path \in Range(results)
            THEN Boosted(Confidence(path, tags), ProbOf(preds, path))
            ELSE Scaled(ProbOf(preds, path))]

\* the predictions are limit candidates of the highest confidence, sorted
BestCandidates(predicted, candidates, limit) ==
    LET paths == {predicted[i].path : i \in 1..Len(predicted)}
    IN  /\ Len(predicted) = Min(limit, Cardinality(DOMAIN candidates))
        /\ \A i \in 1..Len(predicted) :
              /\ predicted[i].path \in DOMAIN candidates
              /\ predicted[i].confidence = candidates[predicted[i].path]
              /\ \A c \in (DOMAIN candidates) \ paths : candidates[c] <= predicted[i].confidence
        /\ \A i, j \in 1..Len(predicted) :
              i < j => predicted[i].confidence >= predicted[j].confidence

\* C23: a predict response holds the limit entries of the highest final
\* confidence, sorted descending, of the candidates: the scorer's 2 * limit
\* results, each boosted by 0.3 times its transition probability from the
\* trigger file and capped at 1.0, and every transition prediction of
\* probability at least 0.1 outside of the scorer's list at 0.8 times its
\* probability.
C23_PredictTakesBestCandidates ==
    (lastOp = "predict") =>
        BestCandidates(response.files,
                       Candidates(lastReq.tags, lastReq.limit, lastReq.f), lastReq.limit)
\* the batches of the rolling evaluator that a step adds
NewBatches == (DOMAIN rollingData') \ (DOMAIN rollingData)

\* C24: every predict call that returns at least one file logs exactly one
\* pending batch holding its top five files to the evaluator before it returns.
C24_PredictLogsBatch ==
    [][lastOp' = "predict" /\ response'.files # << >> =>
        /\ Cardinality(NewBatches) = 1
        /\ \A k \in NewBatches :
              /\ rollingData'[k].hit = ""
              /\ rollingData'[k].predicted_files = Take(PathsOf(response'.files), TOP_K)]_vars
(***************************************************************************)
(* The claims about the tuner's reports.                                   *)
(***************************************************************************)
\* C25 (as amended): after the 1000 synthetic feedbacks, in which arm 2 is hit
\* at rate 0.8 and every other arm at rate 0.4, Best() returns arm 2, and the
\* entry of arm 2 is the first of Stats(), which is sorted by mean, with a
\* mean above 0.7.
C25_ConvergedStats ==
    nOps = SyntheticFeedbacks =>
        /\ GetBestWeights.arm_idx = 2
        /\ GetStats[1].arm_idx = 2
        /\ GetStats[1].mean > 7000

\* all the feedback is in, arm 2 has had its share of it, and the third entry
\* of the report belongs to another arm
C25_Witness ==
    /\ nOps = SyntheticFeedbacks
    /\ feedbacks[2].hits + feedbacks[2].misses >= SyntheticFeedbacks \div NUM_ARMS
    /\ feedbacks[2].hits * 5 = (feedbacks[2].hits + feedbacks[2].misses) * 4
    /\ GetStats[3].arm_idx # 2

\* C25 as stated: Stats()[2], the third entry of the report, is the entry of
\* arm 2 and has a mean above 0.7.
C25_StatsByArmIndex ==
    nOps = SyntheticFeedbacks =>
        /\ GetBestWeights.arm_idx = 2
        /\ GetStats[3].arm_idx = 2
        /\ GetStats[3].mean > 7000
\* the posterior mean of an arm, from its stored hits and misses
PosteriorMean(a) ==
    [num |-> 1 + armStats[a].alpha, den |-> 2 + armStats[a].alpha + armStats[a].beta]

\* C26: in every state of the arm counters, the arm that Best() returns has a
\* posterior mean (1 + hits) / (2 + hits + misses) that no other arm exceeds.
C26_BestHasLargestMean ==
    \A a \in Arms :
        ~Greater(PosteriorMean(a), PosteriorMean(GetBestWeights.arm_idx))

\* after feedback the best arm is not the first one, another arm has a smaller
\* mean, and a later arm has the same mean as the best
C26_Witness ==
    /\ lastOp = "feedback"
    /\ GetBestWeights.arm_idx # 0
    /\ Greater(PosteriorMean(GetBestWeights.arm_idx), PosteriorMean(0))
    /\ \E a \in Arms :
        /\ a > GetBestWeights.arm_idx
        /\ PosteriorMean(a) = PosteriorMean(GetBestWeights.arm_idx)
\* the counter of an arm that a feedback call names: hits if hit, otherwise misses
Counter(stats, arm, hit) == IF hit THEN stats[arm].alpha ELSE stats[arm].beta

\* one feedback call raises the counter it names by 1 and leaves the other
\* counter of the arm and every other arm as they were
OneCounterMore(arm, hit) ==
    /\ Counter(armStats', arm, hit) = Counter(armStats, arm, hit) + 1
    /\ Counter(armStats', arm, ~hit) = Counter(armStats, arm, ~hit)
    /\ \A a \in Arms \ {arm} : armStats'[a] = armStats[a]

\* every arm's (alpha, beta) is (1 + hits reported for it, 1 + misses reported for it)
NoFeedbackLost ==
    \A a \in Arms : GetArmStats(a) = <<1 + feedbacks[a].hits, 1 + feedbacks[a].misses>>

\* C27: RecordFeedback(armIdx, hit) adds 1 to exactly one counter of arm armIdx,
\* hits if hit and misses otherwise, and changes no other arm; whatever the
\* order in which feedback calls of several callers are served, each arm's
\* (alpha, beta) is (1 + hits reported for it, 1 + misses reported for it).
C27_FeedbackCountsOnce ==
    [][/\ lastOp' = "feedback" => OneCounterMore(lastReq'.arm, lastReq'.hit)
       /\ NoFeedbackLost']_vars

\* the same arm has had a hit and a miss reported, and another arm a report too
C27_Witness ==
    /\ lastOp = "feedback"
    /\ \E a \in Arms :
        /\ feedbacks[a].hits >= 1
        /\ feedbacks[a].misses >= 1
        /\ \E other \in Arms \ {a} : feedbacks[other].hits + feedbacks[other].misses >= 1
(***************************************************************************)
(* The claims about the rolling hit rate and the finalizer.                *)
(***************************************************************************)
\* C28: the rolling Hit@5 is hits / (hits + misses) over the batches of the
\* window, pending ones left out: once the single logged batch is hit it is
\* 1.0, and once a second batch has been logged, has aged without a matching
\* read and has been finalized, that batch is a miss and the rate is 0.5.
C28_HitAt5Scenario ==
    /\ RollingEvaluated > 0 => RollingHitAt5 * RollingEvaluated = 10000 * RollingHits
    /\ Len(logCalls) = 1 /\ metrics.hits = 1 => RollingHitAt5 = 10000
    /\ lastOp = "finalize" =>
        /\ RollingHits = 1
        /\ RollingMisses = 1
        /\ RollingHitAt5 = 5000
\* the batch is in the time index and was logged max_age seconds ago or
\* earlier; a batch logged within the current millisecond is 0 s old
OlderThan(k, max_age) == k \in DOMAIN rolling /\ rolling[k] + Ms(max_age) <= now

StillPending(k) == HGetHit(rollingData, k) = ""

NewestFirst(records, limit) ==
    [i \in 1..(IF limit < Len(records) THEN limit ELSE Len(records)) |->
        records[Len(records) + 1 - i]]

\* C30: for every limit >= 0, Recent(limit) returns at most `limit` records:
\* the most recently appended records of the project, newest first.
C30_RecentAtMostLimit ==
    \A P \in IntentProjectIds, limit \in RecentLimits :
        /\ Len(Recent(0, limit, P)) <= limit
        /\ Recent(0, limit, P) = NewestFirst(timeline[ProjectKey(P)], limit)
(***************************************************************************)
(* The claims about batch identity, score ranges and repeated syncs.       *)
(***************************************************************************)
\* C37: every LogPrediction call with a non-empty prediction list creates a
\* batch that is distinct from all existing ones, and leaves the flag and the
\* predictions of every batch logged before as they were, also when the same
\* session logs twice at the same timestamp.
C37_LogCreatesDistinctBatch ==
    [][lastOp' = "log" /\ logCalls' # logCalls =>
        /\ Cardinality(DOMAIN rollingData') = Cardinality(DOMAIN rollingData) + 1
        /\ \A k \in DOMAIN rollingData :
            /\ rollingData'[k].hit = rollingData[k].hit
            /\ rollingData'[k].predicted_files = rollingData[k].predicted_files
        /\ \A k \in DOMAIN prediction :
            prediction'[k].predicted_files = prediction[k].predicted_files]_vars
\* the number of tool events in the session logs
LoggedEvents(sfs) == Len(sfs["agent-1.jsonl"]) + Len(sfs["agent-2.jsonl"])

\* C39: after every sync run over session logs that only grow, each stored
\* transition count is the count derived from the logs as they are, and a run
\* that follows another with no log written in between changes nothing.
C39_SyncSetsCounts ==
    [][lastOp' = "sync" =>
        /\ \A A \in DOMAIN transition' : \A B \in DOMAIN transition'[A] :
               transition'[A][B] = AdjacentCount(A, B)
        /\ \A A \in Files, B \in Files :
               AdjacentCount(A, B) > 0 =>
                   A \in DOMAIN transition' /\ B \in DOMAIN transition'[A]
        /\ lastOp = "sync" => transition' = transition]_vars

\* at least two sync runs have been made, the last one just now, and a pair
\* is stored
C39_Witness ==
    /\ lastOp = "sync"
    /\ LoggedEvents(session_files) + 2 <= nOps
    /\ \E A \in Files, B \in Files : StoredCount(A, B) > 0
\* the arguments of set_weights explored, in hundredths; << >> stands for None
WeightArgs == {<< >>, <<0>>, <<100>>, <<150>>}
AcceptedWeights ==
    {SetWeights(DefaultWeights, r, q, t) : r \in WeightArgs, q \in WeightArgs, t \in WeightArgs}

\* the confidence get_ranked_files computes for a file under the given weights
ConfidenceWith(weights, f, tags) ==
    CalculateConfidence(CompositeWith(weights, f, tags),
                        IF f \in DOMAIN frequency THEN frequency[f] ELSE 1,
                        IF f \in DOMAIN first_seen THEN NowSeconds - first_seen[f] ELSE 0)

\* C38: under every weight setting that set_weights accepts and in every score
\* state, each composite score of the ranked files lies in [0, 100] and each
\* calibrated confidence in [0, 1].
C38_ScoresInRange ==
    \A weights \in AcceptedWeights, tags \in TagSets :
        \A f \in ScoredFiles(tags) :
            /\ 0 <= CompositeWith(weights, f, tags)
            /\ CompositeWith(weights, f, tags) <= 100 * FIX
            /\ 0 <= ConfidenceWith(weights, f, tags)
            /\ ConfidenceWith(weights, f, tags) <= FIX
(***************************************************************************)
(* The claims about the order of intent records.                           *)
(***************************************************************************)
IsPrefix(a, b) == Len(a) <= Len(b) /\ SubSeq(b, 1, Len(a)) = a

\* the records of a session in a timeline, in the timeline's order
OfSession(records, session_id) == SelectSeq(records, LAMBDA r : r.session_id = session_id)

\* C31: intent records are never removed or modified and keep their order: every
\* step leaves each timeline and each session list as a prefix of what it
\* becomes, a Record call puts its record last in the timeline of its project
\* and in the list of its session, and the list of a session holds the session's
\* records in the order of the timeline.
C31_RecordsKeepOrder ==
    [][/\ \A k \in ProjectKeys :
            /\ IsPrefix(timeline[k], timeline'[k])
            /\ \A s \in DOMAIN session_intents[k] :
                /\ s \in DOMAIN session_intents'[k]
                /\ IsPrefix(session_intents[k][s], session_intents'[k][s])
            /\ \A s \in DOMAIN session_intents'[k] :
                session_intents'[k][s] = OfSession(timeline'[k], s)
       /\ lastOp' = "intent" =>
            LET k == ProjectKey(lastReq'.p)
                list == session_intents'[k][lastReq'.s]
            IN  /\ Len(timeline'[k]) = Len(timeline[k]) + 1
                /\ timeline'[k][Len(timeline'[k])].session_id = lastReq'.s
                /\ list[Len(list)] = timeline'[k][Len(timeline'[k])]]_vars

\* a session has recorded twice under one project, and another session in between
C31_Witness ==
    /\ lastOp = "intent"
    /\ \E k \in ProjectKeys :
        /\ Len(timeline[k]) = 3
        /\ timeline[k][1].session_id = timeline[k][3].session_id
        /\ timeline[k][2].session_id # timeline[k][3].session_id
        /\ timeline[k][1] # timeline[k][3]
(***************************************************************************)
(* The claims about the index: enrichment, readers, selection by project.  *)
(***************************************************************************)
\* the positions of the tag's posting list that hold the tag location of the symbol
TagLocationsOf(key) ==
    IF key[4] \in DOMAIN inverted_index
    THEN {i \in 1..Len(inverted_index[key[4]]) :
            /\ inverted_index[key[4]][i].file = key[2]
            /\ inverted_index[key[4]][i].symbol = key[3]
            /\ inverted_index[key[4]][i].symbol_type = "tag"}
    ELSE {}

\* C32: in every state, each (file, symbol, tag) with a stored count of at
\* least 1 has exactly one tag location in the inverted index, however often
\* the enrichment was posted and whether or not the file was indexed again.
C32_OneLocationPerCountedTag ==
    \A key \in DOMAIN tag_count :
        tag_count[key] >= 1 => Cardinality(TagLocationsOf(key)) = 1
(***************************************************************************)
(* The claims about the services around the index: the manager, the        *)
(* context cache, the git proxy, the index lock, the live tracker.         *)
(***************************************************************************)
\* the index that belongs to a project id: the project's own index, and the
\* legacy local index for a query that bears no project id
OwnIndex(project_id) == IF project_id = NoProject THEN LocalIndex ELSE project_id

\* C36: for every project id argument, none included, the index selected to
\* answer a query is the index registered under exactly that id or no index at
\* all; an index registered under a different project id is never selected.
C36_SelectsOwnIndexOrNone ==
    lastOp = "select" => lastReq.index \in {NoIndex, OwnIndex(lastReq.p)}
\* C35: a Context request never returns more files than its own limit, also
\* when the response comes from the cache entry of its keyword set.
C35_AtMostLimitFiles ==
    lastOp = "context" => Len(response.files) <= lastReq.limit
\* the hosts in normal form
Hosts == {NormalizeHost(h) : h \in HostArgs}

\* a well-formed https URL on the host is accepted
Accepts(host) == ValidateGitUrl(UrlOn(host)).ok

\* C34: validation reflects the current whitelist.  At the start exactly the
\* default hosts are accepted; a successful add of h makes the URLs on h
\* accepted at once, a successful remove of h makes them refused at once, and
\* no call changes the answer for any other host: a well-formed https URL on h
\* is accepted exactly when h is a default host or was added and not removed since.
C34_ValidationFollowsWhitelist ==
    /\ \A h \in Hosts : Accepts(h) <=> h \in Range(DEFAULT_ALLOWED_HOSTS)
    /\ [][\A h \in Hosts :
             LET target == NormalizeHost(lastReq'.host)
             IN  IF lastOp' = "add" /\ lastReq'.ok /\ h = target THEN Accepts(h)'
                 ELSE IF lastOp' = "remove" /\ lastReq'.ok /\ h = target THEN ~Accepts(h)'
                 ELSE Accepts(h)' = Accepts(h)]_vars

\* a host that was added is removed again, and the URLs on it are refused
C34_Witness ==
    /\ lastOp = "remove" /\ lastReq.ok
    /\ ~Accepts(NormalizeHost(lastReq.host))
    /\ whitelist_file.lines # DEFAULT_ALLOWED_HOSTS

\* the thread is at the lock and cannot enter
Blocked(t) == threads[t] = "acquire" /\ ~CanAcquire(t)

\* C33: two concurrent reads of the same index never block each other: a
\* search that waits for the lock waits for the writer, never for a search.
C33_ReadersWaitOnlyForWriter ==
    \A t \in SearchThreads : Blocked(t) => rlock.owner \notin SearchThreads
\* no thread is inside record_access
AllCompleted == \A w \in TrackerThreads : workers[w].pc = "idle"

\* the stored probability of the target is its count over the total of the source
StoredAsCounted(from_file, to_file) ==
    LET counts == transition_counts[from_file]
    IN  /\ from_file \in DOMAIN transitions
        /\ to_file \in DOMAIN transitions[from_file]
        /\ transitions[from_file][to_file].num * SumCounts(counts, DOMAIN counts)
               = counts[to_file] * transitions[from_file][to_file].den

\* C40: once all concurrent record_access calls have completed, every target
\* with a count of at least 2 is in the stored set of its source, with the
\* probability final count / final total of the source.
C40_CompletedProbabilitiesMatch ==
    AllCompleted =>
        \A from_file \in DOMAIN transition_counts :
            \A to_file \in DOMAIN transition_counts[from_file] :
                transition_counts[from_file][to_file] >= MIN_TRANSITION_COUNT
                    => StoredAsCounted(from_file, to_file)
====
